---- MODULE Spec2Model ----
(***************************************************************************)
(* The authoritative game server of Spacebattle (src/server/server.js,     *)
(* latest revision, lines 1-596) as a state machine.                       *)
(*                                                                         *)
(* The server is single threaded: every socket handler, timer callback and *)
(* game-loop tick runs to completion, so each is one action.  Player       *)
(* objects live in a heap (objs) and the players Map stores references,    *)
(* because the respawn timers close over the object, not over the id.      *)
(* Player coordinates are whole world units; asteroid coordinates are kept *)
(* in 1/60 of a unit so that the per-tick integration x += v * (1/60) is   *)
(* exact.  Math.random() and client payloads are drawn from small sets.    *)
(*                                                                         *)
(* The scene of one client (src/client/game.js) is modelled next to it:    *)
(* the events the server emits to that client's socket are queued in       *)
(* order, and each registered handler and the per-frame update() is one    *)
(* action on the client's maps of sprites and interpolation targets.       *)
(***************************************************************************)
EXTENDS Integers, Sequences, FiniteSets, TLC

\* ---------------------------------------------------------------- constants
GAME_WIDTH == 2000
GAME_HEIGHT == 1500
PLAYER_HEALTH == 100
RESPAWN_TIME == 3000
MAX_ASTEROIDS == 50
MAX_POWERUPS == 5
PLAYER_INACTIVITY_TIMEOUT == 30000
INACTIVITY_CHECK_INTERVAL == 10000
PLAYER_RADIUS == 15
ASTEROID_DAMAGE == 10
initialCount == 15
halfShipWidth == 12
knockbackForce == 30
removalPadding == 300
padding == 100
baseSpeed == 50
fragmentSpawnOffset == 10
numFragments == 2
healAmount == 35
\* the tick integrates with a fixed dt of 1/60: asteroid coordinates are
\* stored in units of 1/TicksPerSecond
TicksPerSecond == 60

ASTEROID_RADII(size) ==
    CASE size = 2 -> 32
      [] size = 1 -> 24
      [] size = 0 -> 16
      [] OTHER -> 32

POWERUP_TYPES == {"health", "speed"}

\* ------------------------------------------------------------------- bounds
MaxObjs == 2           \* Player objects ever created (playerJoin calls)
MaxSeed == 2           \* asteroids seeded at start (the code seeds initialCount)
MaxAsteroidIds == 6    \* asteroid ids ever generated
MaxPowerupIds == 6     \* power-up ids ever generated
MaxTicks == 2          \* game-loop ticks
MaxTime == 1           \* the clock stops advancing at or after this time (ms)
MaxIdleTime == 40001   \* the same, where the inactivity check is followed

\* socket ids
Conns == {1, 2}

\* ------------------------------------------------------------ input domains
\* data.weaponType of playerHit; "none" stands for a missing field
WeaponTypes == {"laser", "spread", "normal", "none"}
\* unit vectors (cos, sin) of the fragment angle for i = 0; i = 1 adds pi
East == <<1, 0>>
North == <<0, 1>>
\* the clock is read at multiples of TimeStep and when a timeout is due (ms)
TimeStep == INACTIVITY_CHECK_INTERVAL
\* the draws of Math.random() one createAsteroid call may use: positions in
\* [0, W) x [0, H), velocities (Math.random() - 0.5) * (50 - size * 5)
Draw(x, y, vx, vy) == [x |-> x, y |-> y, velocityX |-> vx, velocityY |-> vy]

\* ------------------------------------------------------------------ helpers
Min(a, b) == IF a < b THEN a ELSE b
Max(a, b) == IF a > b THEN a ELSE b
Abs(a) == IF a < 0 THEN -a ELSE a

\* Math.sqrt rounded up to the integer grid: the smallest d with d * d >= n
RECURSIVE Bisect(_, _, _)
Bisect(n, lo, hi) ==
    IF lo >= hi
    THEN lo
    ELSE LET mid == (lo + hi) \div 2
         IN IF mid * mid >= n THEN Bisect(n, lo, mid) ELSE Bisect(n, mid + 1, hi)
CeilSqrt(n) == Bisect(n, 0, GAME_WIDTH + GAME_HEIGHT)

\* integer division truncating toward zero
TruncDiv(a, b) == IF a >= 0 THEN a \div b ELSE -((-a) \div b)

SetMin(S) == CHOOSE m \in S : \A n \in S : m <= n

\* the elements of a finite set of integers in increasing order
RECURSIVE SortedSeq(_)
SortedSeq(S) == IF S = {} THEN <<>> ELSE <<SetMin(S)>> \o SortedSeq(S \ {SetMin(S)})

VARIABLES
    sockets,               \* io.sockets.sockets: ids of the open connections
    closed,                \* socket ids that were disconnected (never reused)
    players,               \* Map id -> reference of the stored Player object
    objs,                  \* heap: reference -> Player object
    nextObj,               \* objects created so far
    asteroids,             \* Map asteroid id -> asteroid
    nextAsteroid,          \* asteroid ids generated so far (ids are fresh)
    powerups,              \* Map powerup id -> powerup
    powerupId,             \* let powerupId
    playerLastUpdateTime,  \* Map id -> Date.now() of the last tracked update
    timers,                \* pending respawn timeouts, in scheduling order
    nextSweep,             \* due time of the next inactivity check
    now,                   \* Date.now()
    ticks,                 \* game-loop ticks run so far
    lastIntent,            \* id -> time the connection last sent an intent
    out,                   \* events emitted by the last handler, in order
    listening,             \* the local client registered its socket handlers
    inbox,                 \* events on their way to the local client, in order
    playersMap,            \* client: Map id -> sprite of the player
    asteroidsMap,          \* client: Map id -> sprite of the asteroid
    playerInterpolationTargets, \* client: Map id -> target position
    handled,               \* the event the last client step processed, and the
                           \* ids the client's maps held before it
    socketId,              \* client: socket.id of its current connection
    greeted,               \* client: socket.id its connect handler last ran for
    reason,                \* client: reason of the last disconnect of its socket
    registered,            \* client: copies of each handler on its socket
    bulletsGroup,          \* client: owner of every bullet in its scene
    powerupsMap,           \* client: powerup id -> the powerup its sprite shows
    bullets                \* the bullets fired, in order: owner, the connections
                           \* whose clients still simulate a copy, and how often
                           \* a report for the bullet took health off a player

vars == <<sockets, closed, players, objs, nextObj, asteroids, nextAsteroid,
          powerups, powerupId, playerLastUpdateTime, timers, nextSweep, now,
          ticks, lastIntent, out, listening, inbox, playersMap, asteroidsMap,
          playerInterpolationTargets, handled, socketId, greeted, reason, registered,
          bulletsGroup, powerupsMap, bullets>>

\* ------------------------------------------------------------------- events
Emit(name, to, conn, data) == [name |-> name, to |-> to, conn |-> conn, data |-> data]
\* io.emit, socket.emit, socket.broadcast.emit
IoEmit(name, data) == Emit(name, "all", 0, data)
SocketEmit(c, name, data) == Emit(name, "sender", c, data)
\* mutant of BroadcastEmit: the event also goes back to the sender
BroadcastEmitAll(c, name, data) == Emit(name, "all", c, data)
BroadcastEmit(c, name, data) == Emit(name, "others", c, data)

\* the connections an event is delivered to
Recipients(e) ==
    CASE e.to = "all" -> sockets
      [] e.to = "sender" -> {e.conn}
      [] e.to = "others" -> sockets \ {e.conn}

\* ----------------------------------------------------------- the local client
\* the id of the client's first connection
First == 1
\* socket.id of the client whose scene is modelled
Me == socketId
\* the client's connection
link == <<socketId, greeted, reason>>

\* the events whose client handlers write the scene's players, asteroids,
\* bullets or interpolation targets (game.js 475-622) or its powerups (game.js
\* 386-392, registered by create()); the latest server sends no
\* gameUpdate, and the client registers no handler for newAsteroid,
\* playerDied or playerHealthUpdate
Handled == {"gameState", "newPlayer", "playerMoved", "playerLeft", "playerDamaged",
            "playerKilled", "playerRespawned", "bulletFired", "asteroidDestroyed",
            "powerupSpawned", "powerupRemoved"}

\* no event processed by the last client step
Idle == [name |-> "none", data |-> << >>, players |-> {}, asteroids |-> {}]

\* e is sent to the local client's socket, open after the handler ran
ForMe(e, open) ==
    /\ Me \in open
    /\ e.name \in Handled
    /\ \/ e.to = "all"
       \/ e.to = "sender" /\ e.conn = Me
       \/ e.to = "others" /\ e.conn # Me

\* the events in evs that reach the client, in order
RECURSIVE Arriving(_, _)
Arriving(evs, open) ==
    IF evs = << >>
    THEN << >>
    ELSE (IF ForMe(Head(evs), open) THEN << Head(evs) >> ELSE << >>)
         \o Arriving(Tail(evs), open)

\* what a server step does to the client: its events are queued for the
\* handlers registered by setupSocketEvents (game.js 471-687), and a client
\* whose socket the step closed will get disconnect with the reason why
\* (game.js 291); the scene is written by the client's own steps only
Delivered(why) ==
    /\ inbox' = IF listening THEN inbox \o Arriving(out', sockets') ELSE inbox
    /\ reason' = IF listening /\ Me \in sockets \ sockets' THEN why ELSE reason
    /\ UNCHANGED <<listening, registered, bulletsGroup, playersMap, asteroidsMap,
                   playerInterpolationTargets, handled, socketId, greeted>>

\* a step in which the local client touches no powerup sprite
Queued(why) == Delivered(why) /\ UNCHANGED powerupsMap

\* a step of the server alone: no client fires or loses a bullet in it
Wired(why) == Queued(why) /\ UNCHANGED bullets

\* a step of the server that is not a disconnect the server began
Wire == Wired("transport close")

\* the Player object currently stored under id
PlayerOf(id) == objs[players[id]]

\* objects still referenced by the store or by a pending timer
Referenced(ps, ts) == {ps[id] : id \in DOMAIN ps} \cup {ts[i].ref : i \in DOMAIN ts}
Collect(os, ps, ts) == [r \in (DOMAIN os) \cap Referenced(ps, ts) |-> os[r]]

\* Array.from(players.values()), Array.from(asteroids.values()), ...
PlayerList == [i \in 1..Cardinality(DOMAIN players) |-> PlayerOf(SortedSeq(DOMAIN players)[i])]
ValuesOf(m) == [i \in 1..Cardinality(DOMAIN m) |-> m[SortedSeq(DOMAIN m)[i]]]

PlayerListOf(ps, os) == [i \in 1..Cardinality(DOMAIN ps) |-> os[ps[SortedSeq(DOMAIN ps)[i]]]]

\* Map.delete
Remove(m, k) == [j \in (DOMAIN m) \ {k} |-> m[j]]
\* Map.set
Put(m, k, v) == (k :> v) @@ m

\* Math.max(lo, Math.min(hi, v))
\* what a payload field that is missing or not a number becomes in arithmetic
\* (undefined -> NaN); a value outside every range the model otherwise reaches
NaN == 0 - GAME_WIDTH * GAME_HEIGHT

\* Math.min, Math.max and + : NaN if an argument is NaN
MathMin(a, b) == IF a = NaN \/ b = NaN THEN NaN ELSE Min(a, b)
MathMax(a, b) == IF a = NaN \/ b = NaN THEN NaN ELSE Max(a, b)
Plus(a, b) == IF a = NaN \/ b = NaN THEN NaN ELSE a + b

\* Math.max(lo, Math.min(hi, v)) (server.js 418-419, 477-478)
Clamp(lo, hi, v) == MathMax(lo, MathMin(hi, v))

\* --------------------------------------------------------------- asteroids
\* createAsteroid (server.js 110-124): a falsy (0) coordinate or velocity is
\* replaced by a random one, taken from the draws rnd.
\* rotation and variation are cosmetic and not modelled.
CreateAsteroid(id, x, y, size, velocityX, velocityY, rnd) ==
    [id |-> id,
     x |-> IF x # 0 THEN x ELSE rnd.x * TicksPerSecond,
     y |-> IF y # 0 THEN y ELSE rnd.y * TicksPerSecond,
     size |-> size,
     velocityX |-> IF velocityX # 0 THEN velocityX ELSE rnd.velocityX,
     velocityY |-> IF velocityY # 0 THEN velocityY ELSE rnd.velocityY]

\* initializeAsteroids (server.js 151-167): initialCount large asteroids at
\* GAME_WIDTH * (0.1 + 0.8 * random), GAME_HEIGHT * (0.1 + 0.8 * random); the
\* model seeds SeedCount of them, all from the draws SeedDraw
SeedCount == Min(initialCount, MaxSeed)
SeedDraw == Draw(1000, 750, -20, -20)
Seeded ==
    [i \in 1..SeedCount |->
        CreateAsteroid(i, SeedDraw.x * TicksPerSecond, SeedDraw.y * TicksPerSecond, 2, 0, 0, SeedDraw)]

Init ==
    /\ sockets = {}
    /\ closed = {}
    /\ players = << >>
    /\ objs = << >>
    /\ nextObj = 0
    /\ asteroids = Seeded
    /\ nextAsteroid = SeedCount
    /\ powerups = << >>
    /\ powerupId = 0
    /\ playerLastUpdateTime = << >>
    /\ timers = << >>
    /\ nextSweep = INACTIVITY_CHECK_INTERVAL
    /\ now = 0
    /\ ticks = 0
    /\ lastIntent = << >>
    /\ out = << >>
    /\ listening = FALSE
    /\ inbox = << >>
    /\ playersMap = << >>
    /\ asteroidsMap = << >>
    /\ playerInterpolationTargets = << >>
    /\ handled = Idle
    /\ socketId = First
    /\ greeted = 0
    /\ reason = "none"
    /\ registered = 0
    /\ bulletsGroup = << >>
    /\ powerupsMap = << >>
    /\ bullets = << >>

\* the connection's last-intent time (kept for the connections that joined)
Intent(c) == IF c \in DOMAIN lastIntent THEN Put(lastIntent, c, now) ELSE lastIntent

\* ------------------------------------------------------------- connections
\* io.on('connection') (server.js 291-296)
Connect(c) ==
    /\ c \notin sockets \cup closed
    /\ sockets' = sockets \cup {c}
    /\ out' = << >>
    /\ UNCHANGED <<closed, players, objs, nextObj, asteroids, nextAsteroid, powerups,
                   powerupId, playerLastUpdateTime, timers, nextSweep, now, ticks, lastIntent>>
    /\ Wire

\* the object playerJoin builds (server.js 301-313)
NewPlayer(c, x, y) ==
    [id |-> c, name |-> "Ada", x |-> x, y |-> y, rotation |-> 0, velocityX |-> 0,
     velocityY |-> 0, score |-> 0, kills |-> 0, health |-> PLAYER_HEALTH, isAlive |-> TRUE]

\* mutant of JoinEvents: newPlayer is sent with io.emit, to the joiner too
JoinEventsToAll(c, player, list) ==
    << SocketEmit(c, "gameState", [players |-> list, asteroids |-> ValuesOf(asteroids)]),
       IoEmit("newPlayer", player) >>

\* what playerJoin sends (server.js 318-325): the state to the joining socket,
\* newPlayer to all the others
JoinEvents(c, player, list) ==
    << SocketEmit(c, "gameState", [players |-> list, asteroids |-> ValuesOf(asteroids)]),
       BroadcastEmit(c, "newPlayer", player) >>

\* socket.on('playerJoin') (server.js 299-329)
PlayerJoin(c, x, y) ==
    /\ c \in sockets
    /\ nextObj < MaxObjs
    /\ nextObj' = nextObj + 1
    /\ players' = Put(players, c, nextObj + 1)
    /\ objs' = Collect(Put(objs, nextObj + 1, NewPlayer(c, x, y)), players', timers)
    /\ playerLastUpdateTime' = Put(playerLastUpdateTime, c, now)
    /\ lastIntent' = Put(lastIntent, c, now)
    /\ out' = JoinEvents(c, NewPlayer(c, x, y), PlayerListOf(players', objs'))
    /\ UNCHANGED <<sockets, closed, asteroids, nextAsteroid, powerups, powerupId,
                   timers, nextSweep, now, ticks>>
    /\ Wire

\* mutant of Disconnect: playerLastUpdateTime.delete is missing
DisconnectKeepsTime(c) ==
    /\ c \in sockets
    /\ sockets' = sockets \ {c}
    /\ closed' = closed \cup {c}
    /\ players' = Remove(players, c)
    /\ lastIntent' = Remove(lastIntent, c)
    /\ objs' = Collect(objs, players', timers)
    /\ out' = << IoEmit("playerLeft", c) >>
    /\ UNCHANGED <<nextObj, asteroids, nextAsteroid, powerups, powerupId, timers,
                   nextSweep, now, ticks, playerLastUpdateTime>>
    /\ Wire

\* socket.on('disconnect') (server.js 513-524)
Disconnect(c) ==
    /\ c \in sockets
    /\ sockets' = sockets \ {c}
    /\ closed' = closed \cup {c}
    /\ players' = Remove(players, c)
    /\ playerLastUpdateTime' = Remove(playerLastUpdateTime, c)
    /\ lastIntent' = Remove(lastIntent, c)
    /\ objs' = Collect(objs, players', timers)
    /\ out' = << IoEmit("playerLeft", c) >>
    /\ UNCHANGED <<nextObj, asteroids, nextAsteroid, powerups, powerupId, timers,
                   nextSweep, now, ticks>>
    /\ Wire

\* mutant of IsActive: the isAlive test is missing
IsActiveDead(c) == c \in DOMAIN players

\* player && player.isAlive for the sender's player (server.js 471-472, 490-491)
IsActive(c) == c \in DOMAIN players /\ PlayerOf(c).isAlive

\* socket.on('playerMovement') (server.js 470-486)
PlayerMovement(c, x, y, rotation, velocity) ==
    /\ c \in sockets
    /\ lastIntent' = Intent(c)
    /\ IF IsActive(c)
       THEN /\ playerLastUpdateTime' = Put(playerLastUpdateTime, c, now)
            /\ objs' = [objs EXCEPT ![players[c]] =
                           [@ EXCEPT !.x = Clamp(halfShipWidth, GAME_WIDTH - halfShipWidth, x),
                                     !.y = Clamp(halfShipWidth, GAME_HEIGHT - halfShipWidth, y),
                                     !.rotation = rotation,
                                     !.velocityX = velocity,
                                     !.velocityY = velocity]]
            /\ out' = << BroadcastEmit(c, "playerMoved", objs'[players[c]]) >>
       ELSE /\ out' = << >>
            /\ UNCHANGED <<playerLastUpdateTime, objs>>
    /\ UNCHANGED <<sockets, closed, players, nextObj, asteroids, nextAsteroid, powerups,
                   powerupId, timers, nextSweep, now, ticks>>
    /\ Wire

\* socket.on('playerShoot') (server.js 489-502): the server keeps no bullet
PlayerShootHandler(c, x, y, rotation, weaponType) ==
    /\ c \in sockets
    /\ lastIntent' = Intent(c)
    /\ IF IsActive(c)
       THEN /\ playerLastUpdateTime' = Put(playerLastUpdateTime, c, now)
            /\ out' = << BroadcastEmit(c, "bulletFired",
                                       [playerId |-> c, x |-> x, y |-> y, rotation |-> rotation,
                                        weaponType |-> weaponType]) >>
       ELSE /\ out' = << >>
            /\ UNCHANGED playerLastUpdateTime
    /\ UNCHANGED <<sockets, closed, players, objs, nextObj, asteroids, nextAsteroid, powerups,
                   powerupId, timers, nextSweep, now, ticks>>

\* the handler run for a playerShoot that reaches the server
PlayerShoot(c, x, y, rotation, weaponType) ==
    PlayerShootHandler(c, x, y, rotation, weaponType) /\ Wire

\* socket.on('clientPing') (server.js 366-368)
ClientPing(c) ==
    /\ c \in sockets
    /\ lastIntent' = Intent(c)
    /\ out' = << SocketEmit(c, "serverPong", << >>) >>
    /\ UNCHANGED <<sockets, closed, players, objs, nextObj, asteroids, nextAsteroid, powerups,
                   powerupId, playerLastUpdateTime, timers, nextSweep, now, ticks>>
    /\ Wire

\* socket.on('playerPingUpdate') (server.js 371-375)
PlayerPingUpdate(c, ping) ==
    /\ c \in sockets
    /\ lastIntent' = Intent(c)
    /\ out' = << BroadcastEmit(c, "otherPlayerPingUpdate", [playerId |-> c, ping |-> ping]) >>
    /\ UNCHANGED <<sockets, closed, players, objs, nextObj, asteroids, nextAsteroid, powerups,
                   powerupId, playerLastUpdateTime, timers, nextSweep, now, ticks>>
    /\ Wire

\* ------------------------------------------------------------------ combat
\* mutant of Damage: every weapon does the default damage
DamageFlat(weaponType) == 20

\* the damage table of playerHit (server.js 399-408)
Damage(weaponType) ==
    CASE weaponType = "spread" -> 15
      [] weaponType = "laser" -> 25
      [] OTHER -> 20

\* knockbackDirection * knockbackForce (server.js 384-397), on the integer grid
Knockback(hitPlayer, shooterId) ==
    IF /\ shooterId \in DOMAIN players
       /\ NaN \notin {hitPlayer.x, hitPlayer.y, PlayerOf(shooterId).x, PlayerOf(shooterId).y}
    THEN LET dx == hitPlayer.x - PlayerOf(shooterId).x
             dy == hitPlayer.y - PlayerOf(shooterId).y
             dist == CeilSqrt(dx * dx + dy * dy)
         IN IF dist > 0
            THEN <<TruncDiv(dx * knockbackForce, dist), TruncDiv(dy * knockbackForce, dist)>>
            ELSE <<0, 0>>
    ELSE <<0, 0>>

\* a respawn timeout: the closure keeps the object (ref), not the id
Timeout(ref, path) == [due |-> now + RESPAWN_TIME, ref |-> ref, path |-> path]

\* mutant of CanBeHit: the isAlive test is missing
CanBeHitDead(hitPlayerId) == hitPlayerId \in DOMAIN players

\* the guard of playerHit (server.js 382)
CanBeHit(hitPlayerId) == hitPlayerId \in DOMAIN players /\ PlayerOf(hitPlayerId).isAlive

\* mutant of Credited: the self-kill test is missing
CreditedSelf(shooterId, hitPlayer) == shooterId \in DOMAIN players

\* who is credited with a kill (server.js 429-431)
Credited(shooterId, hitPlayer) == shooterId # hitPlayer.id /\ shooterId \in DOMAIN players

\* socket.on('playerHit') (server.js 378-467)
PlayerHitHandler(c, hitPlayerId, shooterId, weaponType) ==
    /\ c \in sockets
    /\ lastIntent' = Intent(c)
    /\ IF CanBeHit(hitPlayerId)
       THEN LET ref == players[hitPlayerId]
                hitPlayer == objs[ref]
                kb == Knockback(hitPlayer, shooterId)
                health == hitPlayer.health - Damage(weaponType)
                x == Clamp(halfShipWidth, GAME_WIDTH - halfShipWidth, Plus(hitPlayer.x, kb[1]))
                y == Clamp(halfShipWidth, GAME_HEIGHT - halfShipWidth, Plus(hitPlayer.y, kb[2]))
                credit == Credited(shooterId, hitPlayer)
                hurt == [objs EXCEPT ![ref] = [@ EXCEPT !.health = health, !.x = x, !.y = y]]
            IN IF health <= 0
               THEN LET dead == [hurt EXCEPT ![ref].isAlive = FALSE]
                        paid == IF credit
                                THEN [dead EXCEPT ![players[shooterId]].kills = @ + 1]
                                ELSE dead
                    IN /\ objs' = paid
                       /\ timers' = Append(timers, Timeout(ref, "hit"))
                       /\ out' = << IoEmit("playerKilled", [playerId |-> hitPlayer.id,
                                                            killerId |-> shooterId]) >>
                                 \o (IF credit
                                     THEN << IoEmit("killsUpdate",
                                                    [playerId |-> paid[players[shooterId]].id,
                                                     kills |-> paid[players[shooterId]].kills]) >>
                                     ELSE << >>)
               ELSE /\ objs' = hurt
                    /\ timers' = timers
                    /\ out' = << IoEmit("playerHealthUpdate",
                                        [id |-> hitPlayer.id, health |-> health, x |-> x, y |-> y]) >>
       ELSE /\ out' = << >>
            /\ UNCHANGED <<objs, timers>>
    /\ UNCHANGED <<sockets, closed, players, nextObj, asteroids, nextAsteroid, powerups,
                   powerupId, playerLastUpdateTime, nextSweep, now, ticks>>

\* the handler run for a playerHit that reaches the server
PlayerHit(c, hitPlayerId, shooterId, weaponType) ==
    PlayerHitHandler(c, hitPlayerId, shooterId, weaponType) /\ Wire

\* mutant of StillConnected: the callback does not look the id up
StillConnectedAlways(player) == TRUE

\* mutant of StillConnected: the callback never finds the player
StillConnectedNever(player) == FALSE

\* players.has(player.id) in the respawn callbacks (server.js 235, 444)
StillConnected(player) == player.id \in DOMAIN players

\* the setTimeout callbacks of playerHit (server.js 442-455) and of
\* handlePlayerDeath (server.js 234-250); timers of equal delay fire in order
RespawnFire(x, y) ==
    /\ timers # << >>
    /\ Head(timers).due <= now
    /\ LET t == Head(timers)
           player == objs[t.ref]
           reset == [player EXCEPT !.x = x, !.y = y, !.health = PLAYER_HEALTH, !.isAlive = TRUE,
                                   !.velocityX = 0, !.velocityY = 0,
                                   !.rotation = IF t.path = "hit" THEN 0 ELSE @]
       IN /\ timers' = Tail(timers)
          /\ IF StillConnected(player)
             THEN /\ objs' = Collect([objs EXCEPT ![t.ref] = reset], players, timers')
                  /\ out' = << IoEmit("playerRespawned",
                                      IF t.path = "hit"
                                      THEN reset
                                      ELSE [id |-> reset.id, x |-> reset.x, y |-> reset.y,
                                            health |-> reset.health]) >>
             ELSE /\ objs' = Collect(objs, players, timers')
                  /\ out' = << >>
    /\ UNCHANGED <<sockets, closed, players, nextObj, asteroids, nextAsteroid, powerups,
                   powerupId, playerLastUpdateTime, nextSweep, now, ticks, lastIntent>>
    /\ Wire

\* mutant of CanCollect: the isAlive test is missing
CanCollectDead(c, id) == id \in DOMAIN powerups /\ c \in DOMAIN players

\* powerup && player && player.isAlive (server.js 336)
CanCollect(c, id) == id \in DOMAIN powerups /\ c \in DOMAIN players /\ PlayerOf(c).isAlive

\* socket.on('powerupCollected') (server.js 332-363)
PowerupCollectedHandler(c, id) ==
    /\ c \in sockets
    /\ lastIntent' = Intent(c)
    /\ IF CanCollect(c, id)
       THEN LET player == PlayerOf(c)
                health == Min(player.health + healAmount, PLAYER_HEALTH)
            IN /\ playerLastUpdateTime' = Put(playerLastUpdateTime, c, now)
               /\ powerups' = Remove(powerups, id)
               /\ IF powerups[id].type = "health"
                  THEN /\ objs' = [objs EXCEPT ![players[c]].health = health]
                       /\ out' = << IoEmit("powerupRemoved", id),
                                    IoEmit("playerHealthUpdate",
                                           [id |-> player.id, health |-> health,
                                            x |-> player.x, y |-> player.y]) >>
                  ELSE /\ objs' = objs
                       /\ out' = << IoEmit("powerupRemoved", id),
                                    SocketEmit(c, "activateSpeedBoost", [duration |-> 3000]) >>
       ELSE /\ out' = << >>
            /\ UNCHANGED <<playerLastUpdateTime, powerups, objs>>
    /\ UNCHANGED <<sockets, closed, players, nextObj, asteroids, nextAsteroid, powerupId,
                   timers, nextSweep, now, ticks>>

\* the handler run for a powerupCollected that reaches the server
PowerupCollected(c, id) == PowerupCollectedHandler(c, id) /\ Wire

\* --------------------------------------------------------- asteroid handlers
Half(v) == TruncDiv(v, 2)

\* mutant of CanGenerate: the test against MAX_POWERUPS is missing
CanGenerateAlways == TRUE

\* generatePowerup(spawnX, spawnY) (server.js 82-99) creates one unless at the cap
CanGenerate == Cardinality(DOMAIN powerups) < MAX_POWERUPS

\* mutant of IsLarge: an asteroid of any size is considered
IsLargeAny(originalSize) == TRUE

\* originalSize === 2 (server.js 186)
IsLarge(originalSize) == originalSize = 2

\* the lookup of handleAsteroidHit (server.js 171-172)
InField(asteroidId) == asteroidId \in DOMAIN asteroids

\* mutant of FragmentSize: fragments keep the size of the original
FragmentSizeSame(originalSize) == originalSize

\* newSize (server.js 199)
FragmentSize(originalSize) == originalSize - 1

\* the fragments of a destroyed asteroid (server.js 197-218): fragment i flies
\* at the fragment angle plus i * pi
Fragments(asteroid, dir, rnds) ==
    IF asteroid.size > 0
    THEN [i \in 1..numFragments |->
            LET sign == IF i % 2 = 1 THEN 1 ELSE -1
            IN CreateAsteroid(nextAsteroid + i,
                   asteroid.x + sign * dir[1] * fragmentSpawnOffset * TicksPerSecond,
                   asteroid.y + sign * dir[2] * fragmentSpawnOffset * TicksPerSecond,
                   FragmentSize(asteroid.size),
                   Half(asteroid.velocityX) + sign * dir[1] * baseSpeed,
                   Half(asteroid.velocityY) + sign * dir[2] * baseSpeed,
                   rnds[((i - 1) % Len(rnds)) + 1])]
    ELSE << >>

\* handleAsteroidHit (server.js 170-219) called by socket.on('asteroidHit')
\* (server.js 505-510).  dir is (cos, sin) of the fragment angle, roll the
\* outcome of Math.random() < 0.5, type the power-up type drawn, rnd0 and rnd1
\* the draws of the two createAsteroid calls.
AsteroidHit(c, asteroidId, dir, roll, type, rnd0, rnd1) ==
    /\ c \in sockets
    /\ lastIntent' = Intent(c)
    /\ IF InField(asteroidId)
       THEN LET asteroid == asteroids[asteroidId]
                spawn == IsLarge(asteroid.size) /\ roll /\ CanGenerate
                powerup == [id |-> powerupId, type |-> type, x |-> asteroid.x, y |-> asteroid.y]
                gone == Remove(asteroids, asteroidId)
            IN /\ spawn => powerupId < MaxPowerupIds
               /\ powerups' = IF spawn THEN Put(powerups, powerupId, powerup) ELSE powerups
               /\ powerupId' = IF spawn THEN powerupId + 1 ELSE powerupId
               /\ LET made == Fragments(asteroid, dir, <<rnd0, rnd1>>)
                  IN /\ nextAsteroid + Len(made) <= MaxAsteroidIds
                     /\ nextAsteroid' = nextAsteroid + Len(made)
                     /\ asteroids' = [id \in (DOMAIN gone) \cup {made[i].id : i \in DOMAIN made} |->
                                         IF id \in DOMAIN gone
                                         THEN gone[id]
                                         ELSE made[id - nextAsteroid]]
                     /\ out' = << IoEmit("asteroidDestroyed", asteroidId) >>
                               \o (IF spawn THEN << IoEmit("powerupSpawned", powerup) >> ELSE << >>)
                               \o [i \in DOMAIN made |-> IoEmit("newAsteroid", made[i])]
       ELSE /\ out' = << >>
            /\ UNCHANGED <<asteroids, nextAsteroid, powerups, powerupId>>
    /\ UNCHANGED <<sockets, closed, players, objs, nextObj, playerLastUpdateTime, timers,
                   nextSweep, now, ticks>>
    /\ Wire

\* mutant of SpawnTimer: the test against MAX_ASTEROIDS is missing
SpawnTimerUncapped(edge, rnd) ==
    /\ nextAsteroid < MaxAsteroidIds
    /\ nextAsteroid' = nextAsteroid + 1
    /\ LET spawnX == CASE edge = 0 -> rnd.x * TicksPerSecond
                       [] edge = 1 -> (GAME_WIDTH + padding) * TicksPerSecond
                       [] edge = 2 -> rnd.x * TicksPerSecond
                       [] edge = 3 -> (-padding) * TicksPerSecond
           spawnY == CASE edge = 0 -> (-padding) * TicksPerSecond
                       [] edge = 1 -> rnd.y * TicksPerSecond
                       [] edge = 2 -> (GAME_HEIGHT + padding) * TicksPerSecond
                       [] edge = 3 -> rnd.y * TicksPerSecond
           a == CreateAsteroid(nextAsteroid + 1, spawnX, spawnY, 2, 0, 0, rnd)
       IN    /\ asteroids' = Put(asteroids, a.id, a)
             /\ out' = << IoEmit("newAsteroid", a) >>
    /\ UNCHANGED <<sockets, closed, players, objs, nextObj, powerups, powerupId,
                   playerLastUpdateTime, timers, nextSweep, now, ticks, lastIntent>>
    /\ Wire

\* the periodic asteroid spawn (server.js 553-580); edge 0..3, rnd.x or rnd.y
\* the random coordinate along the edge
SpawnTimer(edge, rnd) ==
    /\ IF Cardinality(DOMAIN asteroids) < MAX_ASTEROIDS
       THEN /\ nextAsteroid < MaxAsteroidIds
            /\ nextAsteroid' = nextAsteroid + 1
            /\ LET spawnX == CASE edge = 0 -> rnd.x * TicksPerSecond
                               [] edge = 1 -> (GAME_WIDTH + padding) * TicksPerSecond
                               [] edge = 2 -> rnd.x * TicksPerSecond
                               [] edge = 3 -> (-padding) * TicksPerSecond
                   spawnY == CASE edge = 0 -> (-padding) * TicksPerSecond
                               [] edge = 1 -> rnd.y * TicksPerSecond
                               [] edge = 2 -> (GAME_HEIGHT + padding) * TicksPerSecond
                               [] edge = 3 -> rnd.y * TicksPerSecond
                   a == CreateAsteroid(nextAsteroid + 1, spawnX, spawnY, 2, 0, 0, rnd)
               IN    /\ asteroids' = Put(asteroids, a.id, a)
                     /\ out' = << IoEmit("newAsteroid", a) >>
       ELSE /\ out' = << >>
            /\ UNCHANGED <<asteroids, nextAsteroid>>
    /\ UNCHANGED <<sockets, closed, players, objs, nextObj, powerups, powerupId,
                   playerLastUpdateTime, timers, nextSweep, now, ticks, lastIntent>>
    /\ Wire

\* ---------------------------------------------------------------- game loop
\* one asteroid after the integration step of updateAsteroids (server.js 129-130)
Moved(a) == [a EXCEPT !.x = a.x + a.velocityX, !.y = a.y + a.velocityY]

\* mutant of Drifted: no asteroid is ever found to have drifted off
DriftedNever(a) == FALSE

\* the drift test of updateAsteroids (server.js 134-137)
Drifted(a) ==
    \/ a.x < (-removalPadding) * TicksPerSecond
    \/ a.x > (GAME_WIDTH + removalPadding) * TicksPerSecond
    \/ a.y < (-removalPadding) * TicksPerSecond
    \/ a.y > (GAME_HEIGHT + removalPadding) * TicksPerSecond

\* updateAsteroids (server.js 126-148): the store and the events after it
UpdatedAsteroids ==
    LET kept == {id \in DOMAIN asteroids : ~Drifted(Moved(asteroids[id]))}
    IN [id \in kept |-> Moved(asteroids[id])]
UpdateEvents ==
    LET lost == SortedSeq({id \in DOMAIN asteroids : Drifted(Moved(asteroids[id]))})
    IN [i \in 1..Len(lost) |-> IoEmit("asteroidDestroyed", lost[i])]

\* distance < PLAYER_RADIUS + asteroidRadius (server.js 259-264)
Overlaps(player, a) ==
    LET dx == player.x * TicksPerSecond - a.x
        dy == player.y * TicksPerSecond - a.y
        r == (PLAYER_RADIUS + ASTEROID_RADII(a.size)) * TicksPerSecond
    IN /\ NaN \notin {player.x, player.y}
       /\ Abs(dx) < r /\ Abs(dy) < r /\ dx * dx + dy * dy < r * r

\* mutant of HandlePlayerDeath: the death transition is missing
HandlePlayerDeathSkipped(st, ref) == st

\* mutant of HandlePlayerDeath: the isAlive guard is missing
HandlePlayerDeathUnguarded(st, ref) ==
    [st EXCEPT !.player = [@ EXCEPT !.isAlive = FALSE, !.health = 0],
               !.ev = @ \o << IoEmit("playerDied", [id |-> st.player.id]) >>,
               !.timers = Append(@, Timeout(ref, "collision"))]

\* handlePlayerDeath (server.js 222-251) on the sweep state st of the player
\* stored as ref: the guard, the death transition, its event and its timeout
HandlePlayerDeath(st, ref) ==
    IF ~st.player.isAlive
    THEN st
    ELSE [st EXCEPT !.player = [@ EXCEPT !.isAlive = FALSE, !.health = 0],
                    !.ev = @ \o << IoEmit("playerDied", [id |-> st.player.id]) >>,
                    !.timers = Append(@, Timeout(ref, "collision"))]

\* the body of the inner loop of checkCollisions (server.js 259-283)
CollideOne(st, ref, a) ==
    IF ~Overlaps(st.player, a)
    THEN st
    ELSE LET health == st.player.health - ASTEROID_DAMAGE
             damaged == [st EXCEPT !.player = [@ EXCEPT !.health = health],
                                   !.lut = Put(@, st.player.id, now),
                                   !.ev = @ \o << IoEmit("playerDamaged",
                                                         [id |-> st.player.id, health |-> health]) >>]
         IN IF health <= 0 THEN HandlePlayerDeath(damaged, ref) ELSE damaged

\* asteroids.forEach of checkCollisions for one player
RECURSIVE CollideAll(_, _, _)
CollideAll(st, ref, as) ==
    IF as = << >> THEN st ELSE CollideAll(CollideOne(st, ref, Head(as)), ref, Tail(as))

\* checkCollisions (server.js 254-286) over the player ids in ids, threading
\* the heap, the timers, the update times and the events
RECURSIVE CheckCollisions(_, _, _)
CheckCollisions(ids, as, acc) ==
    IF ids = << >>
    THEN acc
    ELSE LET ref == players[Head(ids)]
             st == CollideAll([player |-> acc.objs[ref], ev |-> acc.ev, timers |-> acc.timers,
                               lut |-> acc.lut], ref, as)
         IN IF ~acc.objs[ref].isAlive
            THEN CheckCollisions(Tail(ids), as, acc)
            ELSE CheckCollisions(Tail(ids), as,
                    [objs |-> [acc.objs EXCEPT ![ref] = st.player],
                     timers |-> st.timers, lut |-> st.lut, ev |-> st.ev])

\* mutant of Snapshot: the state is serialized as it was before the tick
SnapshotBefore(os, as) ==
    IoEmit("gameState", [players |-> PlayerListOf(players, objs),
                         asteroids |-> ValuesOf(asteroids),
                         powerups |-> ValuesOf(powerups)])

\* the broadcast of the game loop (server.js 542-546) over the heap os and
\* the asteroids as
Snapshot(os, as) ==
    IoEmit("gameState", [players |-> PlayerListOf(players, os),
                         asteroids |-> ValuesOf(as),
                         powerups |-> ValuesOf(powerups)])

\* the game loop (server.js 534-550)
Tick ==
    /\ ticks < MaxTicks
    /\ ticks' = ticks + 1
    /\ asteroids' = UpdatedAsteroids
    /\ LET swept == CheckCollisions(SortedSeq(DOMAIN players), ValuesOf(UpdatedAsteroids),
                                    [objs |-> objs, timers |-> timers,
                                     lut |-> playerLastUpdateTime, ev |-> << >>])
       IN /\ objs' = swept.objs
          /\ timers' = swept.timers
          /\ playerLastUpdateTime' = swept.lut
          /\ out' = UpdateEvents \o swept.ev \o << Snapshot(swept.objs, UpdatedAsteroids) >>
    /\ UNCHANGED <<sockets, closed, players, nextObj, nextAsteroid, powerups, powerupId,
                   nextSweep, now, lastIntent>>
    /\ Wire

\* ------------------------------------------------------------------- timers
\* the inactivity check (server.js 583-596); disconnect(true) runs the
\* disconnect handler (server.js 513-524) for every evicted connection
Evicted == {id \in DOMAIN playerLastUpdateTime :
               now - playerLastUpdateTime[id] > PLAYER_INACTIVITY_TIMEOUT /\ id \in sockets}

InactivitySweep ==
    /\ nextSweep <= now
    /\ nextSweep' = nextSweep + INACTIVITY_CHECK_INTERVAL
    /\ sockets' = sockets \ Evicted
    /\ closed' = closed \cup Evicted
    /\ players' = [id \in (DOMAIN players) \ Evicted |-> players[id]]
    /\ playerLastUpdateTime' = [id \in (DOMAIN playerLastUpdateTime) \ Evicted |->
                                   playerLastUpdateTime[id]]
    /\ lastIntent' = [id \in (DOMAIN lastIntent) \ Evicted |-> lastIntent[id]]
    /\ objs' = Collect(objs, players', timers)
    /\ out' = [i \in 1..Cardinality(Evicted) |-> IoEmit("playerLeft", SortedSeq(Evicted)[i])]
    /\ UNCHANGED <<nextObj, asteroids, nextAsteroid, powerups, powerupId, timers, now, ticks>>
    /\ Wired("io server disconnect")

\* the clock moves to the next reading, never past a timer that is due
TimerDue == nextSweep <= now \/ (timers # << >> /\ Head(timers).due <= now)

AdvanceTime(limit) ==
    /\ now < limit
    /\ ~TimerDue
    /\ now' = SetMin({now - (now % TimeStep) + TimeStep, nextSweep}
                     \cup {timers[i].due : i \in DOMAIN timers})
    /\ out' = << >>
    /\ UNCHANGED <<sockets, closed, players, objs, nextObj, asteroids, nextAsteroid,
                   powerups, powerupId, playerLastUpdateTime, timers, nextSweep, ticks,
                   lastIntent>>
    /\ Wire

\* ------------------------------------------------------------- client scene
\* The scene of the client with socket.id Me. A sprite is its position and
\* its active flag; positions are kept in units of 1 / Units, fine enough for
\* MaxFrames successive blends of update() to be exact.
lerpDivisor == 5
MaxFrames == 1

RECURSIVE Pow(_, _)
Pow(b, n) == IF n = 0 THEN 1 ELSE b * Pow(b, n - 1)
Units == Pow(lerpDivisor, MaxFrames)

\* the variables of the server, and the bullets of all the clients, which
\* the handlers of the local scene leave alone
svars == <<sockets, closed, players, objs, nextObj, asteroids, nextAsteroid, powerups,
           powerupId, playerLastUpdateTime, timers, nextSweep, now, ticks, lastIntent, out,
           bullets>>

\* mutant of Linear: the step is taken from the target onwards
LinearPast(p0, p1) == p1 + (p1 - p0) \div lerpDivisor

\* Phaser.Math.Linear(p0, p1, lerpFactor) with lerpFactor = 0.2 (game.js 1193-1195)
Linear(p0, p1) == p0 + (p1 - p0) \div lerpDivisor

\* this.add.sprite(playerInfo.x, playerInfo.y, 'ship') (game.js 760)
Sprite(info) == [x |-> info.x * Units, y |-> info.y * Units, active |-> TRUE]
\* sprite.setPosition(info.x, info.y)
SetPosition(sprite, info) == [sprite EXCEPT !.x = info.x * Units, !.y = info.y * Units]
\* targetData.x = info.x; targetData.y = info.y (game.js 488-492, 530-534)
Target(info) == [x |-> info.x * Units, y |-> info.y * Units]

\* the ids in a list of players or asteroids
Ids(list) == {list[i].id : i \in DOMAIN list}

\* addPlayer (game.js 748-805): a known id only has its sprite moved
AddPlayer(pm, playerInfo) ==
    IF playerInfo.id \in DOMAIN pm
    THEN [pm EXCEPT ![playerInfo.id] = SetPosition(@, playerInfo)]
    ELSE Put(pm, playerInfo.id, Sprite(playerInfo))

\* state.players.forEach of handleGameState (game.js 694-711)
RECURSIVE SyncPlayers(_, _)
SyncPlayers(list, pm) ==
    IF list = << >>
    THEN pm
    ELSE SyncPlayers(Tail(list),
                     IF Head(list).id \in DOMAIN pm
                     THEN [pm EXCEPT ![Head(list).id] = SetPosition(@, Head(list))]
                     ELSE AddPlayer(pm, Head(list)))

\* addAsteroid (game.js 822-868) under state.asteroids.forEach of
\* handleGameState (game.js 729-736): a known asteroid is left as it is
RECURSIVE SyncAsteroids(_, _)
SyncAsteroids(list, am) ==
    IF list = << >>
    THEN am
    ELSE SyncAsteroids(Tail(list),
                       IF Head(list).id \in DOMAIN am
                       THEN am
                       ELSE Put(am, Head(list).id, [x |-> Head(list).x, y |-> Head(list).y]))

\* mutant of Reconciled: nothing is removed
ReconciledNone(m, received) == m

\* the removal loops of handleGameState (game.js 714-726, 737-742): the
\* entries whose id was not received are deleted
Reconciled(m, received) == [id \in (DOMAIN m) \cap received |-> m[id]]

\* the client step takes the first queued event
Take ==
    /\ inbox' = Tail(inbox)
    /\ handled' = [name |-> Head(inbox).name, data |-> Head(inbox).data,
                   players |-> DOMAIN playersMap, asteroids |-> DOMAIN asteroidsMap]
    /\ UNCHANGED <<listening, registered, bulletsGroup, powerupsMap>>
    /\ UNCHANGED link
    /\ UNCHANGED svars

Next1(name) == inbox # << >> /\ Head(inbox).name = name

\* socket.on('connect') (game.js 282-285), once per connection: setupGame
\* (game.js 460-469) sends playerJoin and registers the handlers.
\* setupSocketEvents (game.js 471-687) adds every handler with socket.on to
\* the one socket io(serverURL) made (game.js 273) and nothing takes a
\* handler off, so each connect leaves one more copy of each. A second run
\* of the handlers above on the same payload leaves the maps as the first
\* run left them; the bulletFired handler adds a sprite on every run.
ClientConnect ==
    /\ Me \in sockets
    /\ greeted # Me
    /\ greeted' = Me
    /\ listening' = TRUE
    /\ registered' = registered + 1
    /\ handled' = Idle
    /\ UNCHANGED <<bulletsGroup, powerupsMap, inbox, playersMap, asteroidsMap, playerInterpolationTargets, socketId,
                   reason>>
    /\ UNCHANGED svars

\* the connection a reconnect opens gets an id of its own
Fresh == SetMin(Conns \ (sockets \cup closed \cup {socketId}))

\* socket.on('disconnect') (game.js 291-297): nothing of the scene is torn
\* down; after 'io server disconnect' the handler calls socket.connect(),
\* after any other reason the socket reconnects by itself (reconnection:
\* true, game.js 273-280)
OnDisconnect ==
    /\ Me \in closed
    /\ reason # "none"
    /\ Conns \ (sockets \cup closed \cup {socketId}) # {}
    /\ socketId' = Fresh
    /\ handled' = Idle
    /\ UNCHANGED <<listening, registered, bulletsGroup, powerupsMap, inbox, playersMap, asteroidsMap, playerInterpolationTargets,
                   greeted, reason>>
    /\ UNCHANGED svars

\* socket.on('gameState') (game.js 475-478): handleGameState (game.js 689-746)
OnGameState ==
    /\ Next1("gameState")
    /\ LET state == Head(inbox).data
           synced == SyncPlayers(state.players, playersMap)
           removed == (DOMAIN synced) \ Ids(state.players)
       IN /\ playersMap' = Reconciled(synced, Ids(state.players))
          /\ playerInterpolationTargets' =
                 [id \in (DOMAIN playerInterpolationTargets) \ removed |->
                     playerInterpolationTargets[id]]
          /\ asteroidsMap' = Reconciled(SyncAsteroids(state.asteroids, asteroidsMap),
                                        Ids(state.asteroids))
    /\ Take

\* socket.on('newPlayer') (game.js 480-483)
OnNewPlayer ==
    /\ Next1("newPlayer")
    /\ playersMap' = AddPlayer(playersMap, Head(inbox).data)
    /\ UNCHANGED <<asteroidsMap, playerInterpolationTargets>>
    /\ Take

\* socket.on('playerMoved') (game.js 485-500)
OnPlayerMoved ==
    /\ Next1("playerMoved")
    /\ LET playerInfo == Head(inbox).data
       IN playerInterpolationTargets' =
              IF playerInfo.id # Me
              THEN Put(playerInterpolationTargets, playerInfo.id, Target(playerInfo))
              ELSE playerInterpolationTargets
    /\ UNCHANGED <<playersMap, asteroidsMap>>
    /\ Take

\* socket.on('playerLeft') (game.js 502-520)
OnPlayerLeft ==
    /\ Next1("playerLeft")
    /\ LET playerId == Head(inbox).data
       IN IF playerId \in DOMAIN playersMap
          THEN /\ playersMap' = Remove(playersMap, playerId)
               /\ playerInterpolationTargets' = Remove(playerInterpolationTargets, playerId)
          ELSE UNCHANGED <<playersMap, playerInterpolationTargets>>
    /\ UNCHANGED asteroidsMap
    /\ Take

\* socket.on('playerDamaged') (game.js 522-551): the handler reads
\* data.playerId, data.x and data.y, which the server's payload may lack
OnPlayerDamaged ==
    /\ Next1("playerDamaged")
    /\ LET data == Head(inbox).data
           known == "playerId" \in DOMAIN data /\ data.playerId \in DOMAIN playersMap
           placed == {"x", "y"} \subseteq DOMAIN data
       IN IF known /\ placed
          THEN IF data.playerId # Me
               THEN /\ playerInterpolationTargets' =
                           Put(playerInterpolationTargets, data.playerId, Target(data))
                    /\ UNCHANGED playersMap
               ELSE /\ playersMap' = [playersMap EXCEPT ![Me] = SetPosition(@, data)]
                    /\ UNCHANGED playerInterpolationTargets
          ELSE UNCHANGED <<playersMap, playerInterpolationTargets>>
    /\ UNCHANGED asteroidsMap
    /\ Take

\* socket.on('playerKilled') (game.js 553-576)
OnPlayerKilled ==
    /\ Next1("playerKilled")
    /\ LET data == Head(inbox).data
       IN playersMap' = IF data.playerId \in DOMAIN playersMap
                        THEN [playersMap EXCEPT ![data.playerId].active = FALSE]
                        ELSE playersMap
    /\ UNCHANGED <<asteroidsMap, playerInterpolationTargets>>
    /\ Take

\* socket.on('playerRespawned') (game.js 578-607)
OnPlayerRespawned ==
    /\ Next1("playerRespawned")
    /\ LET playerInfo == Head(inbox).data
       IN /\ playerInterpolationTargets' = Remove(playerInterpolationTargets, playerInfo.id)
          /\ playersMap' = IF playerInfo.id \in DOMAIN playersMap
                           THEN [playersMap EXCEPT ![playerInfo.id] = Sprite(playerInfo)]
                           ELSE playersMap
    /\ UNCHANGED asteroidsMap
    /\ Take

\* addBullet (game.js 870-902) called by n copies of the bulletFired handler
RECURSIVE AddBullet(_, _, _)
AddBullet(group, bulletInfo, n) ==
    IF n = 0
    THEN group
    ELSE AddBullet(Append(group, bulletInfo.playerId), bulletInfo, n - 1)

\* socket.on('bulletFired') (game.js 609-615): the socket calls every
\* registered copy of the handler with the event
OnBulletFired ==
    /\ Next1("bulletFired")
    /\ bulletsGroup' = AddBullet(bulletsGroup, Head(inbox).data, registered)
    /\ inbox' = Tail(inbox)
    /\ handled' = [name |-> Head(inbox).name, data |-> Head(inbox).data,
                   players |-> DOMAIN playersMap, asteroids |-> DOMAIN asteroidsMap]
    /\ UNCHANGED <<listening, registered, powerupsMap, playersMap, asteroidsMap,
                   playerInterpolationTargets>>
    /\ UNCHANGED link
    /\ UNCHANGED svars

\* socket.on('asteroidDestroyed') (game.js 616-622)
OnAsteroidDestroyed ==
    /\ Next1("asteroidDestroyed")
    /\ asteroidsMap' = Remove(asteroidsMap, Head(inbox).data)
    /\ UNCHANGED <<playersMap, playerInterpolationTargets>>
    /\ Take

\* addPowerup (game.js 1317-1383): a known id is left as it is
AddPowerup(pm, powerupInfo) ==
    IF powerupInfo.id \in DOMAIN pm THEN pm ELSE Put(pm, powerupInfo.id, powerupInfo)

\* the step of a handler that writes the powerups only
TakePowerup ==
    /\ inbox' = Tail(inbox)
    /\ handled' = [name |-> Head(inbox).name, data |-> Head(inbox).data,
                   players |-> DOMAIN playersMap, asteroids |-> DOMAIN asteroidsMap]
    /\ UNCHANGED <<listening, registered, bulletsGroup, playersMap, asteroidsMap,
                   playerInterpolationTargets>>
    /\ UNCHANGED link
    /\ UNCHANGED svars

\* socket.on('powerupSpawned') (game.js 386-388)
OnPowerupSpawned ==
    /\ Next1("powerupSpawned")
    /\ powerupsMap' = AddPowerup(powerupsMap, Head(inbox).data)
    /\ TakePowerup

\* socket.on('powerupRemoved') (game.js 390-392): removePowerup (game.js
\* 1385-1391)
OnPowerupRemoved ==
    /\ Next1("powerupRemoved")
    /\ powerupsMap' = Remove(powerupsMap, Head(inbox).data)
    /\ TakePowerup

\* handlePlayerPowerupCollision (game.js 1393-1408), run by the overlap of
\* playersGroup and powerupsGroup (game.js 350) for the local ship: the
\* client sends powerupCollected with the id and removes the sprite at once;
\* the server runs its powerupCollected handler on the message
CollectPowerup(id) ==
    /\ Me \in DOMAIN playersMap
    /\ playersMap[Me].active
    /\ id \in DOMAIN powerupsMap
    /\ PowerupCollectedHandler(Me, id)
    /\ powerupsMap' = Remove(powerupsMap, id)
    /\ Delivered("transport close")
    /\ UNCHANGED bullets

\* an event that never reaches the client: no handler runs for it
Lose ==
    /\ inbox # << >>
    /\ inbox' = Tail(inbox)
    /\ handled' = Idle
    /\ UNCHANGED <<listening, registered, bulletsGroup, powerupsMap, playersMap, asteroidsMap, playerInterpolationTargets>>
    /\ UNCHANGED link
    /\ UNCHANGED svars

\* the sprites update() blends: not the client's own, not an inactive one,
\* and only towards a stored target (game.js 1189-1192)
Blended == {id \in (DOMAIN playersMap) \cap (DOMAIN playerInterpolationTargets) :
               id # Me /\ playersMap[id].active}

\* the blend of every such sprite is exact in units of 1 / Units
Exact ==
    \A id \in Blended :
        /\ (playerInterpolationTargets[id].x - playersMap[id].x) % lerpDivisor = 0
        /\ (playerInterpolationTargets[id].y - playersMap[id].y) % lerpDivisor = 0

\* the interpolation of update() (game.js 1181-1199); create() has set
\* isInitialized before the first frame (game.js 418)
Update ==
    /\ Exact
    /\ playersMap' =
           [id \in DOMAIN playersMap |->
               IF id \in Blended
               THEN [playersMap[id] EXCEPT
                        !.x = Linear(@, playerInterpolationTargets[id].x),
                        !.y = Linear(@, playerInterpolationTargets[id].y)]
               ELSE playersMap[id]]
    /\ handled' = Idle
    /\ UNCHANGED <<listening, registered, bulletsGroup, powerupsMap, inbox, asteroidsMap, playerInterpolationTargets>>
    /\ UNCHANGED link
    /\ UNCHANGED svars

\* ----------------------------------------------------------- specifications
\* Every specification seeds the same field (Init); they differ in what the
\* clients send and in what Math.random() draws.
Home == <<1000, 750>>
FieldDraw == Draw(1000, 750, -20, -20)

\* Spec: two connections join on top of the seeded asteroids; the second
\* reports laser hits on the first, for any shooter
Next ==
    \/ \E c \in Conns : Connect(c)
    \/ \E c \in Conns : PlayerJoin(c, Home[1], Home[2])
    \/ \E c \in Conns : Disconnect(c)
    \/ \E s \in Conns : PlayerHit(2, 1, s, "laser")
    \/ RespawnFire(Home[1], Home[2])
    \/ Tick
    \/ AdvanceTime(MaxTime)

Spec == Init /\ [][Next]_vars

\* SpecField: one connection shoots the asteroid field while it is refilled
FieldDirs == {East, North}
AsteroidIds == 1..MaxAsteroidIds
NextField ==
    \/ Connect(1)
    \/ \E id \in AsteroidIds, d \in FieldDirs, roll \in BOOLEAN :
          AsteroidHit(1, id, d, roll, "health", FieldDraw, FieldDraw)
    \/ \E edge \in 0..3 : SpawnTimer(edge, FieldDraw)
    \/ Tick

SpecField == Init /\ [][NextField]_vars

\* SpecReports: one connection reports hits on asteroids and on players, also
\* on those that are gone or dead
NextReports ==
    \/ Connect(1)
    \/ PlayerJoin(1, Home[1], Home[2])
    \/ \E h \in Conns : PlayerHit(1, h, 1, "laser")
    \/ \E id \in AsteroidIds, roll \in BOOLEAN :
          AsteroidHit(1, id, East, roll, "health", FieldDraw, FieldDraw)
    \/ RespawnFire(Home[1], Home[2])
    \/ AdvanceTime(MaxTime)

SpecReports == Init /\ [][NextReports]_vars

\* SpecDamage: the first connection is hit with every weapon type, by any
\* shooter
NextDamage ==
    \/ \E c \in Conns : Connect(c)
    \/ \E c \in Conns : PlayerJoin(c, Home[1], Home[2])
    \/ \E s \in Conns, w \in WeaponTypes : PlayerHit(1, 1, s, w)
    \/ RespawnFire(Home[1], Home[2])
    \/ AdvanceTime(MaxTime)

SpecDamage == Init /\ [][NextDamage]_vars

\* SpecWorld: the connections move and spawn anywhere, also out of the world
SpawnPoints == {Home, <<1999, 0>>}
MovePoints == {<<-40, 1600>>, <<500, 700>>, <<NaN, 750>>}
NextWorld ==
    \/ \E c \in Conns : Connect(c)
    \/ \E c \in Conns, p \in SpawnPoints : PlayerJoin(c, p[1], p[2])
    \/ \E p \in MovePoints : PlayerMovement(1, p[1], p[2], 1, 5)
    \/ PlayerHit(2, 1, 2, "laser")
    \/ \E p \in SpawnPoints : RespawnFire(p[1], p[2])
    \/ Tick
    \/ AdvanceTime(MaxTime)

SpecWorld == Init /\ [][NextWorld]_vars

\* SpecMove: the first connection reports positions inside and outside the
\* world, before joining, alive and dead
NextMove ==
    \/ \E c \in Conns : Connect(c)
    \/ \E c \in Conns : PlayerJoin(c, Home[1], Home[2])
    \/ \E p \in MovePoints : PlayerMovement(1, p[1], p[2], 1, 5)
    \/ PlayerHit(2, 1, 2, "laser")
    \/ RespawnFire(Home[1], Home[2])
    \/ AdvanceTime(MaxTime)

SpecMove == Init /\ [][NextMove]_vars

\* SpecRelay: two connections join, move, shoot, ping and collect the
\* power-ups that the first seeded asteroid drops; the second can kill the
\* first
PowerupIds == 0..MaxPowerupIds
Shots == {[x |-> 1000, y |-> 750, rotation |-> 1, weaponType |-> "spread"]}
NextRelay ==
    \/ \E c \in Conns : Connect(c)
    \/ \E c \in Conns : PlayerJoin(c, Home[1], Home[2])
    \/ \E c \in Conns : PlayerMovement(c, Home[1], Home[2], 0, 0)
    \/ \E c \in Conns, b \in Shots : PlayerShoot(c, b.x, b.y, b.rotation, b.weaponType)
    \/ \E c \in Conns : ClientPing(c)
    \/ \E c \in Conns : PlayerPingUpdate(c, 40)
    \/ \E type \in POWERUP_TYPES : AsteroidHit(1, 1, East, TRUE, type, FieldDraw, FieldDraw)
    \/ \E c \in Conns, id \in PowerupIds : PowerupCollected(c, id)
    \/ PlayerHit(2, 1, 2, "laser")
    \/ RespawnFire(Home[1], Home[2])
    \/ AdvanceTime(MaxTime)

SpecRelay == Init /\ [][NextRelay]_vars

\* SpecIdle: a connection joins and then only the server acts, long enough
\* for the inactivity check to evict it
NextIdle ==
    \/ \E c \in Conns : Connect(c)
    \/ PlayerJoin(1, Home[1], Home[2])
    \/ Disconnect(1)
    \/ PlayerHit(2, 1, 2, "laser")
    \/ RespawnFire(Home[1], Home[2])
    \/ Tick
    \/ InactivitySweep
    \/ AdvanceTime(MaxIdleTime)

SpecIdle == Init /\ [][NextIdle]_vars

\* The server waits while MaxInbox events are queued for the client.
MaxInbox == 1
Remote == 2
Away == <<500, 700>>
Room == Len(inbox) < MaxInbox

\* SpecClient: the local client (connection Me) and a remote player, who
\* shoots an asteroid and leaves, while the client takes or never receives
\* the events queued for it
NextClient ==
    \/ \E c \in Conns : Room /\ Connect(c)
    \/ \E c \in Conns : Room /\ PlayerJoin(c, Home[1], Home[2])
    \/ Room /\ AsteroidHit(Remote, 1, East, FALSE, "health", FieldDraw, FieldDraw)
    \/ Room /\ Disconnect(Remote)
    \/ Room /\ Tick
    \/ ClientConnect
    \/ OnGameState
    \/ OnNewPlayer
    \/ OnPlayerLeft
    \/ OnPlayerDamaged
    \/ OnAsteroidDestroyed
    \/ Lose

SpecClient == Init /\ [][NextClient]_vars

\* SpecRender: the remote player moves away, is shot down by the local one
\* and respawns, while the client, which receives every event, renders frames
NextRender ==
    \/ \E c \in Conns : Room /\ Connect(c)
    \/ \E c \in Conns : Room /\ PlayerJoin(c, Home[1], Home[2])
    \/ Room /\ PlayerMovement(Remote, Away[1], Away[2], 1, 5)
    \/ Room /\ PlayerHit(Me, Remote, Me, "laser")
    \/ Room /\ RespawnFire(Home[1], Home[2])
    \/ Room /\ Tick
    \/ Room /\ AdvanceTime(MaxTime)
    \/ ClientConnect
    \/ OnGameState
    \/ OnNewPlayer
    \/ OnPlayerMoved
    \/ OnPlayerDamaged
    \/ OnPlayerKilled
    \/ OnPlayerRespawned
    \/ Update

SpecRender == Init /\ [][NextRender]_vars

\* SpecSession: the client's connection is accepted, joins, and is closed
\* by the network or by the inactivity check; the client's disconnect and
\* connect handlers answer. The one playerJoin that setupGame sends for a
\* connection is handled once.
JoinSent == greeted = Me /\ Me \notin DOMAIN players
NextSession ==
    \/ Connect(Me)
    \/ ClientConnect
    \/ JoinSent /\ PlayerJoin(Me, Home[1], Home[2])
    \/ Disconnect(Me)
    \/ InactivitySweep
    \/ Tick
    \/ AdvanceTime(MaxIdleTime)
    \/ OnGameState
    \/ OnPlayerDamaged
    \/ OnDisconnect

SpecSession == Init /\ [][NextSession]_vars

\* SpecDrift: the field FlightTicks ticks after start-up with nobody
\* connected: the seeded asteroids have flown that long, and so has a large
\* asteroid the spawn timer put on the left edge, now one tick inside the
\* removal line. Players join on top of the seeded asteroids; ticks are
\* counted from there.
FlightTicks == 599
Flown(a, k) == [a EXCEPT !.x = a.x + k * a.velocityX, !.y = a.y + k * a.velocityY]
Spawned ==
    CreateAsteroid(SeedCount + 1, (-padding) * TicksPerSecond, FieldDraw.y * TicksPerSecond,
                   2, 0, 0, FieldDraw)
Adrift ==
    Put([i \in DOMAIN Seeded |-> Flown(Seeded[i], FlightTicks)],
        SeedCount + 1, Flown(Spawned, FlightTicks))
Under == <<800, 550>>

InitDrift ==
    /\ sockets = {}
    /\ closed = {}
    /\ players = << >>
    /\ objs = << >>
    /\ nextObj = 0
    /\ asteroids = Adrift
    /\ nextAsteroid = SeedCount + 1
    /\ powerups = << >>
    /\ powerupId = 0
    /\ playerLastUpdateTime = << >>
    /\ timers = << >>
    /\ nextSweep = INACTIVITY_CHECK_INTERVAL
    /\ now = 0
    /\ ticks = 0
    /\ lastIntent = << >>
    /\ out = << >>
    /\ listening = FALSE
    /\ inbox = << >>
    /\ playersMap = << >>
    /\ asteroidsMap = << >>
    /\ playerInterpolationTargets = << >>
    /\ handled = Idle
    /\ socketId = First
    /\ greeted = 0
    /\ reason = "none"
    /\ registered = 0
    /\ bulletsGroup = << >>
    /\ powerupsMap = << >>
    /\ bullets = << >>

NextDrift ==
    \/ \E c \in Conns : Connect(c)
    \/ \E c \in Conns : PlayerJoin(c, Under[1], Under[2])
    \/ Disconnect(Remote)
    \/ SpawnTimer(3, FieldDraw)
    \/ Tick

SpecDrift == InitDrift /\ [][NextDrift]_vars

\* SpecCrowd: a field one short of MAX_ASTEROIDS. Besides the seeded
\* asteroids it holds the small fragments that earlier hits left behind; ids
\* stand for the id strings of the code, and those of the fragments are the
\* numbers up to 0. The spawn timer fills the field, a connection shoots
\* fragments out of it.
Debris == (SeedCount + 2 - MAX_ASTEROIDS)..0
Spot(id) == Draw(40 * (1 - id), 300, 20, 20)
Crowd ==
    [id \in Debris \cup DOMAIN Seeded |->
        IF id \in Debris
        THEN CreateAsteroid(id, Spot(id).x * TicksPerSecond, Spot(id).y * TicksPerSecond,
                            0, 0, 0, Spot(id))
        ELSE Seeded[id]]
Corner == Draw(0, 0, -20, -20)
CrowdDraws == {FieldDraw, Corner}

InitCrowd ==
    /\ sockets = {}
    /\ closed = {}
    /\ players = << >>
    /\ objs = << >>
    /\ nextObj = 0
    /\ asteroids = Crowd
    /\ nextAsteroid = SeedCount
    /\ powerups = << >>
    /\ powerupId = 0
    /\ playerLastUpdateTime = << >>
    /\ timers = << >>
    /\ nextSweep = INACTIVITY_CHECK_INTERVAL
    /\ now = 0
    /\ ticks = 0
    /\ lastIntent = << >>
    /\ out = << >>
    /\ listening = FALSE
    /\ inbox = << >>
    /\ playersMap = << >>
    /\ asteroidsMap = << >>
    /\ playerInterpolationTargets = << >>
    /\ handled = Idle
    /\ socketId = First
    /\ greeted = 0
    /\ reason = "none"
    /\ registered = 0
    /\ bulletsGroup = << >>
    /\ powerupsMap = << >>
    /\ bullets = << >>

NextCrowd ==
    \/ Connect(Remote)
    \/ \E id \in {-1, 0} : AsteroidHit(Remote, id, East, FALSE, "health", FieldDraw, FieldDraw)
    \/ \E edge \in 0..3 : \E rnd \in CrowdDraws : SpawnTimer(edge, rnd)

SpecCrowd == InitCrowd /\ [][NextCrowd]_vars

\* SpecStock: the seeded field with MAX_POWERUPS - 1 power-ups lying where
\* large asteroids were destroyed before. A connection joins, shoots the
\* large asteroids, with either outcome of the roll, and collects power-ups.
Stock ==
    [id \in 0..(MAX_POWERUPS - 2) |->
        [id |-> id, type |-> "health",
         x |-> SeedDraw.x * TicksPerSecond, y |-> SeedDraw.y * TicksPerSecond]]

InitStock ==
    /\ sockets = {}
    /\ closed = {}
    /\ players = << >>
    /\ objs = << >>
    /\ nextObj = 0
    /\ asteroids = Seeded
    /\ nextAsteroid = SeedCount
    /\ powerups = Stock
    /\ powerupId = MAX_POWERUPS - 1
    /\ playerLastUpdateTime = << >>
    /\ timers = << >>
    /\ nextSweep = INACTIVITY_CHECK_INTERVAL
    /\ now = 0
    /\ ticks = 0
    /\ lastIntent = << >>
    /\ out = << >>
    /\ listening = FALSE
    /\ inbox = << >>
    /\ playersMap = << >>
    /\ asteroidsMap = << >>
    /\ playerInterpolationTargets = << >>
    /\ handled = Idle
    /\ socketId = First
    /\ greeted = 0
    /\ reason = "none"
    /\ registered = 0
    /\ bulletsGroup = << >>
    /\ powerupsMap = << >>
    /\ bullets = << >>

NextStock ==
    \/ Connect(Remote)
    \/ PlayerJoin(Remote, Home[1], Home[2])
    \/ \E id \in 1..MaxAsteroidIds, roll \in BOOLEAN :
           AsteroidHit(Remote, id, East, roll, "health", FieldDraw, FieldDraw)
    \/ \E id \in {0, MAX_POWERUPS - 1} : PowerupCollected(Remote, id)

SpecStock == InitStock /\ [][NextStock]_vars

\* SpecQuiet: a connection joins away from the asteroids and then moves or
\* reports hits on asteroids and on itself while the clock runs and the
\* inactivity check fires
NextQuiet ==
    \/ Connect(First)
    \/ PlayerJoin(First, Away[1], Away[2])
    \/ PlayerMovement(First, Away[1], Away[2], 0, 0)
    \/ \E id \in 1..SeedCount : AsteroidHit(First, id, East, FALSE, "health", FieldDraw, FieldDraw)
    \/ PlayerHit(First, First, First, "laser")
    \/ InactivitySweep
    \/ AdvanceTime(MaxIdleTime)

SpecQuiet == Init /\ [][NextQuiet]_vars

\* SpecRespawn: a connection joins on top of the seeded asteroids, is shot
\* while the clock is below MaxTime and collides in the ticks; it may join
\* again or disconnect. The clock runs on for as long as a respawn timeout
\* is pending, and the timers of the event loop fire when they are due:
\* weak fairness of the clock, of the respawn callbacks and of the
\* inactivity check.
Early == now < MaxTime
Horizon == IF timers = << >> THEN MaxTime ELSE Max(MaxTime, timers[Len(timers)].due)

NextRespawn ==
    \/ \E c \in Conns : Connect(c)
    \/ PlayerJoin(First, Home[1], Home[2])
    \/ Disconnect(First)
    \/ Early /\ PlayerHit(Remote, First, Remote, "laser")
    \/ Tick
    \/ RespawnFire(Home[1], Home[2])
    \/ InactivitySweep
    \/ AdvanceTime(Horizon)

SpecRespawn ==
    /\ Init
    /\ [][NextRespawn]_vars
    /\ WF_vars(RespawnFire(Home[1], Home[2]))
    /\ WF_vars(InactivitySweep)
    /\ WF_vars(AdvanceTime(Horizon))

\* SpecLerp: the remote player joins at Home and reports positions a power
\* of lerpDivisor away, so that several successive frames of update() blend
\* exactly; no game loop runs, so only update() moves the remote sprite
LerpPoints == {<<875, 625>>, <<1125, 750>>}
NextLerp ==
    \/ \E c \in Conns : Room /\ Connect(c)
    \/ \E c \in Conns : Room /\ PlayerJoin(c, Home[1], Home[2])
    \/ \E p \in LerpPoints : Room /\ PlayerMovement(Remote, p[1], p[2], 0, 0)
    \/ ClientConnect
    \/ OnGameState
    \/ OnNewPlayer
    \/ OnPlayerMoved
    \/ Update

SpecLerp == Init /\ [][NextLerp]_vars

\* SpecLocal: the local and a remote player join; the remote one moves away
\* and reports laser hits on the local one, whose stored position the server
\* knocks back; the game loop sends its snapshots
NextLocal ==
    \/ \E c \in Conns : Room /\ Connect(c)
    \/ \E c \in Conns : Room /\ PlayerJoin(c, Home[1], Home[2])
    \/ Room /\ PlayerMovement(Remote, Away[1], Away[2], 0, 0)
    \/ Room /\ PlayerHit(Remote, Me, Remote, "laser")
    \/ Room /\ Tick
    \/ ClientConnect
    \/ OnGameState
    \/ OnNewPlayer
    \/ OnPlayerMoved
    \/ OnPlayerDamaged

SpecLocal == Init /\ [][NextLocal]_vars

\* SpecMass: a field one short of MAX_ASTEROIDS, all large but for one small
\* fragment (id 0): the seeded asteroids and those the spawn timer added
\* since (ids below 0). The timer fills the field and a connection shoots
\* asteroids to pieces.
Heavy ==
    [id \in Debris \cup DOMAIN Seeded |->
        IF id \in Debris
        THEN CreateAsteroid(id, Spot(id).x * TicksPerSecond, Spot(id).y * TicksPerSecond,
                            IF id = 0 THEN 0 ELSE 2, 0, 0, Spot(id))
        ELSE Seeded[id]]

InitMass ==
    /\ sockets = {}
    /\ closed = {}
    /\ players = << >>
    /\ objs = << >>
    /\ nextObj = 0
    /\ asteroids = Heavy
    /\ nextAsteroid = SeedCount
    /\ powerups = << >>
    /\ powerupId = 0
    /\ playerLastUpdateTime = << >>
    /\ timers = << >>
    /\ nextSweep = INACTIVITY_CHECK_INTERVAL
    /\ now = 0
    /\ ticks = 0
    /\ lastIntent = << >>
    /\ out = << >>
    /\ listening = FALSE
    /\ inbox = << >>
    /\ playersMap = << >>
    /\ asteroidsMap = << >>
    /\ playerInterpolationTargets = << >>
    /\ handled = Idle
    /\ socketId = First
    /\ greeted = 0
    /\ reason = "none"
    /\ registered = 0
    /\ bulletsGroup = << >>
    /\ powerupsMap = << >>
    /\ bullets = << >>

NextMass ==
    \/ Connect(Remote)
    \/ \E id \in (-1)..MaxAsteroidIds :
           AsteroidHit(Remote, id, East, FALSE, "health", FieldDraw, FieldDraw)
    \/ \E edge \in {1, 3} : SpawnTimer(edge, FieldDraw)

SpecMass == InitMass /\ [][NextMass]_vars

\* ---------------------------------------------------------- the bullets
\* the number of bullets fired in a run
MaxShots == 2

\* shoot() of the client behind connection c (game.js 1079-1125): a local
\* bullet owned by socket.id joins its bulletsGroup and playerShoot goes to
\* the server, whose bulletFired (server.js 489-502) makes every other
\* client add a copy of the bullet with the same owner (game.js 609-615,
\* 870-902). No bullet carries an id, on the wire or in a client.
ShootBullet(c, x, y, rotation, weaponType) ==
    /\ Len(bullets) < MaxShots
    /\ IsActive(c)
    /\ PlayerShootHandler(c, x, y, rotation, weaponType)
    /\ bullets' = Append(bullets, [ownerId |-> c, weaponType |-> weaponType,
                                   at |-> sockets, dealt |-> 0])
    /\ Queued("transport close")

\* handlePlayerHit of the client behind connection c (game.js 930-956), run
\* by the collider of its bulletsGroup and playersGroup (game.js 345-346) for
\* its copy of bullet n: unless the bullet is the hit player's own, the client
\* reports playerHit {hitPlayerId, shooterId, damage} without a weapon type
\* and destroys its copy; the server runs its playerHit handler on the report.
BulletHit(c, n, hitPlayerId) ==
    /\ n \in DOMAIN bullets
    /\ c \in bullets[n].at
    /\ c \in sockets
    /\ hitPlayerId \in DOMAIN players
    /\ bullets[n].ownerId # hitPlayerId
    /\ PlayerHitHandler(c, hitPlayerId, bullets[n].ownerId, "none")
    /\ bullets' = [bullets EXCEPT
                      ![n].at = @ \ {c},
                      ![n].dealt = @ + IF objs'[players[hitPlayerId]].health
                                            < objs[players[hitPlayerId]].health
                                       THEN 1 ELSE 0]
    /\ Queued("transport close")

NextBullets ==
    \/ \E c \in Conns : Connect(c)
    \/ \E c \in Conns : PlayerJoin(c, Home[1], Home[2])
    \/ \E c \in Conns, s \in Shots :
          ShootBullet(c, s.x, s.y, s.rotation, s.weaponType)
    \/ \E c \in Conns, n \in 1..MaxShots, hitPlayerId \in Conns :
          BulletHit(c, n, hitPlayerId)
    \/ \E c \in Conns : Disconnect(c)

SpecBullets == Init /\ [][NextBullets]_vars

\* SpecReconnect: the client's connection is closed twice over and opened
\* again by its socket, while a peer whose connection id no reconnect takes
\* joins and shoots.
Gunner == 3
NextReconnect ==
    \/ Connect(Me)
    \/ ClientConnect
    \/ Disconnect(Me)
    \/ OnDisconnect
    \/ Connect(Gunner)
    \/ Room /\ PlayerJoin(Gunner, Home[1], Home[2])
    \/ \E b \in Shots :
          /\ Room
          /\ Len(bulletsGroup) < MaxShots
          /\ PlayerShoot(Gunner, b.x, b.y, b.rotation, b.weaponType)
    \/ OnNewPlayer
    \/ OnBulletFired

SpecReconnect == Init /\ [][NextReconnect]_vars

\* SpecPowerups: a remote player splits large asteroids that leave powerups
\* and collects them, while the local client connects early or late, takes
\* the events and snapshots sent to it and flies over the powerups it shows
NextPowerups ==
    \/ \E c \in Conns : Room /\ Connect(c)
    \/ \E c \in Conns : Room /\ PlayerJoin(c, Home[1], Home[2])
    \/ \E id \in 1..SeedCount :
          Room /\ AsteroidHit(Remote, id, East, TRUE, "health", FieldDraw, FieldDraw)
    \/ \E id \in 0..1 : Room /\ PowerupCollected(Remote, id)
    \/ Room /\ Tick
    \/ ClientConnect
    \/ OnGameState
    \/ OnNewPlayer
    \/ OnAsteroidDestroyed
    \/ OnPowerupSpawned
    \/ OnPowerupRemoved
    \/ \E id \in 0..1 : Room /\ CollectPowerup(id)

SpecPowerups == Init /\ [][NextPowerups]_vars

\* SpecDeaths: the local player, whose ship the client shows before anything
\* hurts it, is shot by reports of a connection that never joined and
\* collides with the asteroids of the field in the ticks; the client receives
\* every event sent to it, and the respawn timeouts fire when they are due
Known == Me \in DOMAIN playersMap
NextDeaths ==
    \/ \E c \in Conns : Room /\ Connect(c)
    \/ Room /\ PlayerJoin(Me, Home[1], Home[2])
    \/ Room /\ Known /\ PlayerHit(Remote, Me, Remote, "laser")
    \/ Room /\ Known /\ Tick
    \/ Room /\ RespawnFire(Home[1], Home[2])
    \/ AdvanceTime(Horizon)
    \/ ClientConnect
    \/ OnGameState
    \/ OnPlayerDamaged
    \/ OnPlayerKilled
    \/ OnPlayerRespawned

SpecDeaths == Init /\ [][NextDeaths]_vars

\* ------------------------------------------------------------------- claims
\* the events of the last handler with the given name
Events(name) == {i \in DOMAIN out : out[i].name = name}
InWorld(x, y) ==
    /\ NaN \notin {x, y}
    /\ 0 <= x /\ x <= GAME_WIDTH /\ 0 <= y /\ y <= GAME_HEIGHT
Range(f) == {f[i] : i \in DOMAIN f}

\* C2: every stored player, and every health the server sends (playerDamaged,
\* playerHealthUpdate, playerRespawned, the players of a gameState), has
\* 0 <= health <= 100.
HealthOk(h) == 0 <= h /\ h <= PLAYER_HEALTH
C2_HealthInRange ==
    /\ \A id \in DOMAIN players : HealthOk(PlayerOf(id).health)
    /\ \A i \in DOMAIN out :
          /\ out[i].name \in {"playerDamaged", "playerHealthUpdate", "playerRespawned"}
                => HealthOk(out[i].data.health)
          /\ out[i].name = "gameState"
                => \A p \in Range(out[i].data.players) : HealthOk(p.health)

\* C10: a playerJoin stores a fresh Player under the connection id (health
\* 100, alive, no kills, inside the world); the joining connection alone gets
\* the full state, holding that player and the stored asteroids; the others,
\* and not the joiner, get newPlayer.
C10_JoinHandshake ==
    \A i \in Events("newPlayer") :
        LET c == out[i].data.id
        IN /\ c \in DOMAIN players
           /\ PlayerOf(c) = out[i].data
           /\ PlayerOf(c).health = PLAYER_HEALTH
           /\ PlayerOf(c).isAlive
           /\ PlayerOf(c).kills = 0
           /\ InWorld(PlayerOf(c).x, PlayerOf(c).y)
           /\ Recipients(out[i]) = sockets \ {c}
           /\ Cardinality(Events("newPlayer")) = 1
           /\ Cardinality(Events("gameState")) = 1
           /\ \A j \in Events("gameState") :
                 /\ Recipients(out[j]) = {c}
                 /\ PlayerOf(c) \in Range(out[j].data.players)
                 /\ Range(out[j].data.asteroids) = Range(asteroids)
                 /\ Len(out[j].data.asteroids) = Cardinality(DOMAIN asteroids)

\* C10 witness: a join was just handled while another connection was open
C10_Witness ==
    /\ Events("newPlayer") # {}
    /\ \E c \in sockets : \A i \in Events("newPlayer") : c # out[i].data.id

\* the pending respawn timeouts of the object r
Pending(r) == {i \in DOMAIN timers : timers[i].ref = r}

\* C4, between handlers: an object has at most one pending respawn timeout,
\* and only while it is dead
C4_OnePending ==
    \A r \in DOMAIN objs :
        /\ Cardinality(Pending(r)) <= 1
        /\ Pending(r) # {} => ~objs[r].isAlive

\* C4, per handler: timeouts are scheduled only for the objects that went from
\* alive to dead in that handler, one each; a respawn (dead to alive, one
\* playerRespawned) happens only when the oldest timeout fires and the id of
\* its player is in the store
C4_Step ==
    LET died == {r \in DOMAIN objs : objs[r].isAlive /\ r \in DOMAIN objs' /\ ~objs'[r].isAlive}
        revived == {r \in DOMAIN objs : ~objs[r].isAlive /\ r \in DOMAIN objs' /\ objs'[r].isAlive}
        respawned == {i \in DOMAIN out' : out'[i].name = "playerRespawned"}
        added == IF Len(timers') > Len(timers)
                 THEN SubSeq(timers', Len(timers) + 1, Len(timers'))
                 ELSE << >>
    IN /\ Len(timers') > Len(timers) => SubSeq(timers', 1, Len(timers)) = timers
       /\ \A i \in DOMAIN added :
             /\ added[i].ref \in died
             /\ \A j \in DOMAIN added : added[i].ref = added[j].ref => i = j
       /\ Cardinality(respawned) <= 1
       /\ (respawned # {} \/ revived # {}) =>
             /\ timers # << >>
             /\ timers' = Tail(timers)
             /\ objs[Head(timers).ref].id \in DOMAIN players
             /\ revived \subseteq {Head(timers).ref}
             /\ \A i \in respawned : out'[i].data.id = objs[Head(timers).ref].id

\* C4: each alive->dead transition schedules at most one respawn timeout and
\* gets at most one respawn; reports and collisions on a dead player schedule
\* none; a respawn is applied only if the id is in the store when it fires.
C4_RespawnOnce == [] C4_OnePending /\ [][C4_Step]_vars

\* C4 witness: a respawn was just applied while the player was also reported
\* again (a second timeout is pending for the same id)
C4_Witness ==
    /\ Events("playerRespawned") # {}
    /\ \E i \in Events("playerRespawned"), j \in DOMAIN timers :
          objs[timers[j].ref].id = out[i].data.id

\* C5: a playerHit whose shooterId is the hit player's id leaves that player's
\* health, position and alive flag as they were.
C5_SelfHitExcluded ==
    [][\A c \in Conns, h \in Conns :
          (PlayerHit(c, h, h, "laser") /\ h \in DOMAIN players)
             => objs'[players[h]] = objs[players[h]]]_vars

\* C8: a killing playerHit adds exactly 1 to the kills of the player named by
\* shooterId and broadcasts killsUpdate, if shooterId is in the store and is not
\* the target; otherwise no kills counter changes; no other counter changes.
KillsChanged == {r \in DOMAIN objs : r \in DOMAIN objs' /\ objs'[r].kills # objs[r].kills}
C8_Step ==
    /\ \A c \in Conns, h \in Conns, s \in Conns :
          PlayerHit(c, h, s, "laser") =>
             LET kills == h \in DOMAIN players /\ PlayerOf(h).isAlive
                          /\ ~objs'[players[h]].isAlive
                 paid == kills /\ s # h /\ s \in DOMAIN players
                 updates == {i \in DOMAIN out' : out'[i].name = "killsUpdate"}
             IN IF paid
                THEN /\ KillsChanged = {players[s]}
                     /\ objs'[players[s]].kills = objs[players[s]].kills + 1
                     /\ Cardinality(updates) = 1
                     /\ \A i \in updates : out'[i].data = [playerId |-> s,
                                                           kills |-> objs'[players[s]].kills]
                ELSE KillsChanged = {} /\ updates = {}
    /\ KillsChanged # {} => \E i \in DOMAIN out' : out'[i].name = "playerKilled"
C8_KillCredit == [][C8_Step]_vars

\* C8 witness: a kill was just credited to the shooter
C8_Witness ==
    \E i \in Events("killsUpdate"), j \in Events("playerKilled") :
        /\ out[i].data.playerId = out[j].data.killerId
        /\ out[i].data.playerId # out[j].data.playerId
        /\ PlayerOf(out[i].data.playerId).kills = out[i].data.kills

\* C1, per asteroidHit on a stored asteroid of size s: the asteroid leaves the
\* store, the others stay as they are, and the store gains exactly 2
\* asteroids of size s-1 if s > 0 and none if s = 0
C1_Step ==
    \A id \in AsteroidIds, d \in FieldDirs, roll \in BOOLEAN :
        (id \in DOMAIN asteroids /\ AsteroidHit(1, id, d, roll, "health", FieldDraw, FieldDraw)) =>
            LET s == asteroids[id].size
                added == (DOMAIN asteroids') \ (DOMAIN asteroids)
                count == Cardinality(DOMAIN asteroids)
            IN /\ id \notin DOMAIN asteroids'
               /\ \A n \in (DOMAIN asteroids) \ {id} :
                     n \in DOMAIN asteroids' /\ asteroids'[n] = asteroids[n]
               /\ IF s > 0
                  THEN /\ Cardinality(added) = 2
                       /\ \A n \in added : asteroids'[n].size = s - 1
                       /\ Cardinality(DOMAIN asteroids') = count + 1
                  ELSE /\ added = {}
                       /\ Cardinality(DOMAIN asteroids') = count - 1

\* C1: an asteroidHit on a stored asteroid of size s removes it and adds
\* exactly 2 asteroids of size s-1 if s > 0, none if s = 0; the count of the
\* store changes by +1 or by -1.
C1_Fragments == [][C1_Step]_vars

\* C1 witness: a size-1 asteroid was just destroyed (two size-0 fragments are
\* announced and stored) after a size-0 asteroid had been destroyed
C1_Witness ==
    /\ Events("asteroidDestroyed") # {}
    /\ Cardinality(Events("newAsteroid")) = 2
    /\ \A i \in Events("newAsteroid") :
          /\ out[i].data.size = 0
          /\ out[i].data.id \in DOMAIN asteroids
          /\ asteroids[out[i].data.id] = out[i].data
    /\ \E n \in 1..nextAsteroid : n > SeedCount /\ n \notin DOMAIN asteroids

\* C3: every stored player's position is inside the world:
\* 0 <= x <= GAME_WIDTH and 0 <= y <= GAME_HEIGHT.
C3_PositionInWorld ==
    \A id \in DOMAIN players : InWorld(PlayerOf(id).x, PlayerOf(id).y)

\* a handler that did nothing: the stores and the timers are as they were
\* and nothing is emitted
NoOp ==
    /\ UNCHANGED <<players, objs, asteroids, nextAsteroid, powerups, powerupId, timers,
                   playerLastUpdateTime>>
    /\ out' = << >>

\* C6, per handler: a report on an asteroid id that is not stored, or on a
\* player id that is not stored or is dead, does nothing; new asteroids get
\* ids that were never used
C6_Step ==
    /\ \A id \in AsteroidIds, roll \in BOOLEAN :
          (AsteroidHit(1, id, East, roll, "health", FieldDraw, FieldDraw)
              /\ id \notin DOMAIN asteroids) => NoOp
    /\ \A h \in Conns :
          (PlayerHit(1, h, 1, "laser")
              /\ (h \notin DOMAIN players \/ ~PlayerOf(h).isAlive)) => NoOp
    /\ \A n \in (DOMAIN asteroids') \ (DOMAIN asteroids) : n > nextAsteroid /\ n <= nextAsteroid'

\* C6: an asteroidHit on an id that is not stored and a playerHit on an id
\* that is not stored or is dead change nothing, schedule nothing and emit
\* nothing; as ids are never reused, only the first of several reports for
\* an asteroid has an effect.
C6_StaleReports == [](DOMAIN asteroids \subseteq 1..nextAsteroid) /\ [][C6_Step]_vars

\* C6 witness: a report was just ignored (nothing emitted, the clock has not
\* moved) while a dead player is stored and an asteroid id is gone
C6_Witness ==
    /\ now = 0
    /\ out = << >>
    /\ \E id \in DOMAIN players : ~PlayerOf(id).isAlive
    /\ \E n \in 1..nextAsteroid : n \notin DOMAIN asteroids

\* C7, per playerHit on a living target: health drops by 25 (laser), 15
\* (spread) or 20 (anything else); above 0 the target stays alive and one
\* playerHealthUpdate (id, health, x, y) is sent and no playerKilled; otherwise
\* it is dead and one playerKilled (playerId, killerId = shooterId) is sent
\* and no playerHealthUpdate
C7_Step ==
    \A h \in Conns, s \in Conns, w \in WeaponTypes :
        (h \in DOMAIN players /\ PlayerOf(h).isAlive /\ PlayerHit(1, h, s, w)) =>
            LET loss == IF w = "laser" THEN 25 ELSE IF w = "spread" THEN 15 ELSE 20
                result == PlayerOf(h).health - loss
                after == objs'[players[h]]
                updates == {i \in DOMAIN out' : out'[i].name = "playerHealthUpdate"}
                kills == {i \in DOMAIN out' : out'[i].name = "playerKilled"}
            IN /\ after.health = result
               /\ IF result > 0
                  THEN /\ after.isAlive
                       /\ kills = {}
                       /\ Cardinality(updates) = 1
                       /\ \A i \in updates :
                             /\ out'[i].data = [id |-> h, health |-> result,
                                                x |-> after.x, y |-> after.y]
                             /\ out'[i].to = "all"
                  ELSE /\ ~after.isAlive
                       /\ updates = {}
                       /\ Cardinality(kills) = 1
                       /\ \A i \in kills :
                             /\ out'[i].data = [playerId |-> h, killerId |-> s]
                             /\ out'[i].to = "all"

\* C7: a playerHit on a living target takes 25 (laser), 15 (spread) or 20
\* (other, missing) from its health; if the result is > 0 the target stays
\* alive and exactly one playerHealthUpdate is broadcast, otherwise it is
\* dead and exactly one playerKilled, and no playerHealthUpdate, is broadcast.
C7_DamageTable == [][C7_Step]_vars

\* C7 witness: the hit that brought a player from 100 to exactly 0 was just
\* handled (playerKilled sent, the target dead)
C7_Witness ==
    \E i \in Events("playerKilled") :
        /\ out[i].data.playerId \in DOMAIN players
        /\ PlayerOf(out[i].data.playerId).health = 0
        /\ ~PlayerOf(out[i].data.playerId).isAlive
        /\ Events("playerHealthUpdate") = {}

\* C9: a stored player whose connection has been silent since T is evicted
\* by T + PLAYER_INACTIVITY_TIMEOUT + INACTIVITY_CHECK_INTERVAL: no stored
\* player has been silent for longer.
C9_IdleEvicted ==
    \A id \in DOMAIN players :
        now - lastIntent[id] <= PLAYER_INACTIVITY_TIMEOUT + INACTIVITY_CHECK_INTERVAL

\* the fields of a stored player that a join on its connection must keep
Kept(player) == [health |-> player.health, isAlive |-> player.isAlive, kills |-> player.kills,
                 score |-> player.score, x |-> player.x, y |-> player.y]

\* C11: a playerJoin on a connection that already has a stored Player (alive
\* or dead) leaves that Player's health, alive flag, kills, score and position
\* as they were.
C11_JoinOnce ==
    [][\A c \in Conns :
          (c \in DOMAIN players /\ PlayerJoin(c, Home[1], Home[2]))
             => Kept(objs'[players'[c]]) = Kept(PlayerOf(c))]_vars

\* v clamped into lo..hi
Into(lo, hi, v) == IF v < lo THEN lo ELSE IF v > hi THEN hi ELSE v

\* a stored coordinate that is the reported number v clamped into 0..size:
\* v itself when it is at least half a ship inside, and otherwise within half
\* a ship of the clamped value
ClampedInto(stored, v, size) ==
    /\ stored # NaN
    /\ 0 <= stored /\ stored <= size
    /\ Abs(stored - Into(0, size, v)) <= halfShipWidth
    /\ (halfShipWidth <= v /\ v <= size - halfShipWidth) => stored = v

\* C12, per playerMovement: from a living sender the reported numbers are
\* stored clamped, rotation and velocity as reported, and the others get one
\* playerMoved; from a sender without a player or with a dead one, players,
\* the stored objects and playerLastUpdateTime stay and nothing is emitted
C12_Step ==
    \A p \in MovePoints :
        PlayerMovement(1, p[1], p[2], 1, 5) =>
            IF 1 \in DOMAIN players /\ PlayerOf(1).isAlive
            THEN LET after == objs'[players'[1]]
                 IN /\ players' = players
                    /\ p[1] # NaN => ClampedInto(after.x, p[1], GAME_WIDTH)
                    /\ p[2] # NaN => ClampedInto(after.y, p[2], GAME_HEIGHT)
                    /\ after.rotation = 1
                    /\ after.velocityX = 5 /\ after.velocityY = 5
                    /\ \A r \in DOMAIN objs : r # players[1] => objs'[r] = objs[r]
                    /\ Len(out') = 1
                    /\ out'[1].name = "playerMoved" /\ out'[1].data = after
            ELSE /\ UNCHANGED <<players, objs, playerLastUpdateTime>>
                 /\ out' = << >>

EventsAfter(name) == {i \in DOMAIN out' : out'[i].name = name}

\* C13, per playerShoot: players, the stored objects, asteroids and power-ups
\* stay; a living sender gets exactly one bulletFired with its id relayed,
\* a sender without a player or with a dead one gets nothing relayed
C13_Step ==
    \A c \in Conns, b \in Shots :
        PlayerShoot(c, b.x, b.y, b.rotation, b.weaponType) =>
            /\ UNCHANGED <<players, objs, asteroids, powerups>>
            /\ IF c \in DOMAIN players /\ PlayerOf(c).isAlive
               THEN /\ Len(out') = 1
                    /\ out'[1].name = "bulletFired"
                    /\ out'[1].data.playerId = c
                    /\ out'[1].data = [playerId |-> c, x |-> b.x, y |-> b.y,
                                       rotation |-> b.rotation, weaponType |-> b.weaponType]
               ELSE out' = << >>

\* C13: a playerShoot never changes players, asteroids or power-ups; exactly
\* one bulletFired carrying the sender's id is relayed if the sender's Player
\* is alive, and nothing is relayed otherwise.
C13_ShootRelay == [][C13_Step]_vars

\* C13 witness: a shot of a living player was just relayed while a dead
\* player is in the store
C13_Witness ==
    /\ \E i \in Events("bulletFired") : PlayerOf(out[i].data.playerId).isAlive
    /\ \E id \in DOMAIN players : ~PlayerOf(id).isAlive

\* C14, per intent of connection c: what playerMovement, playerShoot and
\* playerPingUpdate cause (playerMoved, bulletFired, otherPlayerPingUpdate)
\* goes to every other connection and not to c; serverPong and
\* activateSpeedBoost go to c alone
C14_Step ==
    \A c \in Conns :
        /\ (\/ PlayerMovement(c, Home[1], Home[2], 0, 0)
            \/ \E b \in Shots : PlayerShoot(c, b.x, b.y, b.rotation, b.weaponType)
            \/ PlayerPingUpdate(c, 40))
              => /\ \A i \in DOMAIN out' :
                       /\ out'[i].name \in {"playerMoved", "bulletFired", "otherPlayerPingUpdate"}
                       /\ Recipients(out'[i]) = sockets \ {c}
                       /\ c \notin Recipients(out'[i])
                 /\ (\E b \in Shots : PlayerShoot(c, b.x, b.y, b.rotation, b.weaponType))
                       => EventsAfter("playerMoved") \cup EventsAfter("otherPlayerPingUpdate") = {}
                 /\ PlayerPingUpdate(c, 40) => Cardinality(EventsAfter("otherPlayerPingUpdate")) = 1
        /\ ClientPing(c)
              => /\ Len(out') = 1
                 /\ out'[1].name = "serverPong"
                 /\ Recipients(out'[1]) = {c}
        /\ \A id \in PowerupIds :
              PowerupCollected(c, id)
                 => \A i \in EventsAfter("activateSpeedBoost") : Recipients(out'[i]) = {c}

\* C14: playerMoved, bulletFired and otherPlayerPingUpdate go to every
\* connection but the one whose intent caused them; serverPong and
\* activateSpeedBoost go to that connection only.
C14_NoEcho == [][C14_Step]_vars

\* C14 witness: a speed boost was just sent to its collector while another
\* connection is open
C14_Witness ==
    \E i \in Events("activateSpeedBoost") :
        /\ Cardinality(Recipients(out[i])) = 1
        /\ sockets \ Recipients(out[i]) # {}

\* C15, per powerupCollected: with the power-up stored and the sender's
\* Player alive, the power-up is removed, one powerupRemoved goes to all, and
\* the sender alone gets the effect (health: min(health + 35, 100) and one
\* playerHealthUpdate to all; speed: one activateSpeedBoost to the sender);
\* otherwise nothing changes and nothing is emitted
C15_Step ==
    /\ \A c \in Conns, id \in PowerupIds :
          PowerupCollected(c, id) =>
             IF id \in DOMAIN powerups /\ c \in DOMAIN players /\ PlayerOf(c).isAlive
             THEN LET before == PlayerOf(c)
                      healed == IF before.health + 35 < 100 THEN before.health + 35 ELSE 100
                  IN /\ DOMAIN powerups' = (DOMAIN powerups) \ {id}
                     /\ \A n \in DOMAIN powerups' : powerups'[n] = powerups[n]
                     /\ players' = players
                     /\ \A r \in DOMAIN objs : r # players[c] => objs'[r] = objs[r]
                     /\ Cardinality(EventsAfter("powerupRemoved")) = 1
                     /\ \A i \in EventsAfter("powerupRemoved") :
                           out'[i].data = id /\ Recipients(out'[i]) = sockets
                     /\ IF powerups[id].type = "health"
                        THEN /\ objs'[players[c]] = [before EXCEPT !.health = healed]
                             /\ Cardinality(EventsAfter("playerHealthUpdate")) = 1
                             /\ \A i \in EventsAfter("playerHealthUpdate") :
                                   /\ out'[i].data.id = c /\ out'[i].data.health = healed
                                   /\ Recipients(out'[i]) = sockets
                             /\ Len(out') = 2
                        ELSE /\ objs'[players[c]] = before
                             /\ Cardinality(EventsAfter("activateSpeedBoost")) = 1
                             /\ \A i \in EventsAfter("activateSpeedBoost") :
                                   Recipients(out'[i]) = {c}
                             /\ Len(out') = 2
             ELSE /\ UNCHANGED <<players, objs, powerups, powerupId, asteroids, timers,
                                 playerLastUpdateTime>>
                  /\ out' = << >>
    /\ \A n \in (DOMAIN powerups') \ (DOMAIN powerups) : n >= powerupId /\ n < powerupId'

\* C15: a powerupCollected has an effect only if the power-up is stored and
\* the sender's Player is alive; then the power-up is removed, powerupRemoved
\* is broadcast and the effect goes to the sender only; otherwise nothing
\* changes and nothing is emitted.  Ids are not reused, so of several reports
\* for one power-up exactly one has the effect.
C15_CollectOnce == [](DOMAIN powerups \subseteq 0..(powerupId - 1)) /\ [][C15_Step]_vars

\* C15 witness: a health power-up was just collected by a player at health
\* 50 (now 85) and is gone from the store
C15_Witness ==
    /\ \E i \in Events("powerupRemoved") : out[i].data \notin DOMAIN powerups
    /\ \E i \in Events("playerHealthUpdate") :
          /\ out[i].data.health = 85
          /\ PlayerOf(out[i].data.id).health = 85

\* C16, between handlers: a closed connection's id is in neither players nor
\* playerLastUpdateTime
C16_Gone ==
    \A c \in closed : c \notin DOMAIN players /\ c \notin DOMAIN playerLastUpdateTime

\* C16, per step: a connection that closes (by itself or by the inactivity
\* check) has playerLeft with its id broadcast to all, once; a closed
\* connection stays closed
C16_Step ==
    /\ closed \subseteq closed'
    /\ \A c \in closed' \ closed :
          /\ Cardinality({i \in DOMAIN out' : out'[i].name = "playerLeft" /\ out'[i].data = c}) = 1
          /\ \A i \in DOMAIN out' : out'[i].name = "playerLeft" => out'[i].to = "all"

\* C16: after a connection's disconnect, voluntary or forced by the
\* inactivity check, its id is in neither players nor playerLastUpdateTime,
\* playerLeft with the id was broadcast, and no later timer, tick or handler
\* brings the id back.
C16_Left == [] C16_Gone /\ [][C16_Step]_vars

\* C16 witness: playerLeft was just broadcast for a player that died, while
\* its respawn timeout is still pending
C16_Witness ==
    \E i \in Events("playerLeft") :
        /\ out[i].data \in closed
        /\ \E j \in DOMAIN timers : objs[timers[j].ref].id = out[i].data

\* C17: whenever a respawn is applied (playerRespawned is broadcast), on
\* either death path, the respawned player (the object the timeout was set
\* for) then has health 100, is alive, is inside the world, has rotation 0 and
\* velocity (0, 0), keeps its id, name and kills, and the playerRespawned
\* carries the whole player.
C17_RespawnReset ==
    [][\A p \in SpawnPoints :
          (RespawnFire(p[1], p[2]) /\ \E i \in DOMAIN out' : out'[i].name = "playerRespawned") =>
             LET ref == Head(timers).ref
                 before == objs[ref]
             IN /\ \A i \in DOMAIN out' :
                      /\ DOMAIN out'[i].data = DOMAIN before
                      /\ out'[i].data.id = before.id
                /\ ref \in DOMAIN objs' =>
                      LET after == objs'[ref]
                      IN /\ after.health = PLAYER_HEALTH
                         /\ after.isAlive
                         /\ InWorld(after.x, after.y)
                         /\ after.rotation = 0
                         /\ after.velocityX = 0 /\ after.velocityY = 0
                         /\ after.id = before.id /\ after.name = before.name
                         /\ after.kills = before.kills
                         /\ \A i \in DOMAIN out' : out'[i].data = after]_vars

\* C18, between handlers: every playerRespawned just broadcast names an id
\* that is in players
C18_RespawnedStored ==
    \A i \in Events("playerRespawned") : out[i].data.id \in DOMAIN players

\* C18, per firing timeout: when the id of the timeout's player is no longer
\* in players, the stores and every stored player stay as they were and
\* nothing is emitted
C18_Step ==
    (RespawnFire(Home[1], Home[2]) /\ objs[Head(timers).ref].id \notin DOMAIN players) =>
        /\ UNCHANGED <<players, asteroids, powerups, playerLastUpdateTime>>
        /\ \A id \in DOMAIN players : objs'[players[id]] = objs[players[id]]
        /\ out' = << >>

\* C18: a respawn timeout that fires after its player's connection was
\* closed changes nothing in the store and broadcasts no playerRespawned; no
\* playerRespawned is ever broadcast for an id that is not in players.
C18_ClosedNoRespawn == [] C18_RespawnedStored /\ [][C18_Step]_vars

\* C18 witness: the timeout of the first player, who was killed and then
\* disconnected, has fired without effect while the second player is stored
C18_Witness ==
    /\ now = RESPAWN_TIME
    /\ timers = << >>
    /\ out = << >>
    /\ 1 \in closed
    /\ 2 \in DOMAIN players

\* C19: once the client has processed a gameState snapshot, the ids of its
\* asteroidsMap are the asteroid ids of that snapshot and the ids of its
\* playersMap are the player ids of that snapshot, whatever events it took
\* or never received before.
C19_SnapshotReconciled ==
    handled.name = "gameState" =>
        /\ DOMAIN playersMap = Ids(handled.data.players)
        /\ DOMAIN asteroidsMap = Ids(handled.data.asteroids)

\* a snapshot was processed by a client that still held the remote player
\* and the first asteroid, whose playerLeft and asteroidDestroyed never
\* reached it, and that lacked an asteroid of the snapshot: its maps now hold
\* the snapshot's ids
C19_Witness ==
    /\ handled.name = "gameState"
    /\ Remote \in handled.players \ Ids(handled.data.players)
    /\ 1 \in handled.asteroids \ Ids(handled.data.asteroids)
    /\ Ids(handled.data.asteroids) \ handled.asteroids # {}
    /\ Remote \notin DOMAIN playersMap
    /\ Me \in DOMAIN playersMap
    /\ 1 \notin DOMAIN asteroidsMap

\* the queued snapshot is the one of the game loop (server.js 542-546), which
\* alone carries the powerups
PerTick == "powerups" \in DOMAIN Head(inbox).data

\* C20: the handlers of playerMoved, playerDamaged and of the per-tick
\* gameState leave the rendered position of every remote player the client
\* already knows as it is; they only store a target, and update() alone
\* moves the sprite.
C20_TargetsOnly ==
    [][(OnPlayerMoved \/ OnPlayerDamaged \/ (OnGameState /\ PerTick)) =>
          \A id \in (DOMAIN playersMap) \ {Me} :
              id \in DOMAIN playersMap' =>
                  /\ playersMap'[id].x = playersMap[id].x
                  /\ playersMap'[id].y = playersMap[id].y]_vars

\* C21: a disconnect begun by the server ('io server disconnect', as the
\* inactivity check does) ends the client's session: the client stays on its
\* closed socket, opens no new connection and is not in the players store
\* again.
C21_Terminal ==
    reason = "io server disconnect" => socketId \in closed /\ socketId \notin DOMAIN players

\* C22: between handlers, timers and ticks every stored player has
\* health > 0 exactly when it is alive.
C22_AliveIffHealthy ==
    \A id \in DOMAIN players : (PlayerOf(id).health > 0) <=> PlayerOf(id).isAlive

\* one stored player was killed by an asteroid and waits for its respawn
\* while another is alive and wounded
C22_Witness ==
    \E id, other \in DOMAIN players :
        /\ ~PlayerOf(id).isAlive
        /\ \E i \in DOMAIN timers : timers[i].ref = players[id] /\ timers[i].path = "collision"
        /\ PlayerOf(other).isAlive
        /\ PlayerOf(other).health < PLAYER_HEALTH

\* C23: in a collision sweep asteroid damage is applied only to a player who
\* is alive at that moment, so every playerDamaged of a tick reports a health
\* that was positive before the damage, and a player who died in the sweep is
\* left with the health 0 of the death transition.
C23_DamageOnlyAlive ==
    /\ \A i \in Events("playerDamaged") : out[i].data.health + ASTEROID_DAMAGE > 0
    /\ \A i \in Events("playerDied") :
           out[i].data.id \in DOMAIN players => PlayerOf(out[i].data.id).health = 0

\* the events of the last handler show a completed tick: removals first,
\* then the collision sweep, then a single snapshot, which is the store
TickDone ==
    LET shots == {i \in Events("gameState") : "powerups" \in DOMAIN out[i].data}
        swept == Events("playerDamaged") \cup Events("playerDied")
    IN /\ shots = {Len(out)}
       /\ \A j \in Events("asteroidDestroyed") : \A k \in swept : j < k
       /\ \A k \in swept : k < Len(out)
       /\ out[Len(out)].data.players = PlayerList
       /\ out[Len(out)].data.asteroids = ValuesOf(asteroids)
       /\ \A j \in Events("asteroidDestroyed") :
              out[j].data \notin Ids(out[Len(out)].data.asteroids)
       /\ Ids(out[Len(out)].data.players) \cap closed = {}

\* C24: a tick integrates the asteroids and removes the drifted ones, then
\* sweeps the collisions, then broadcasts one snapshot, whose players and
\* asteroids are the store after that tick: no removed asteroid and no
\* disconnected player is in it.
C24_TickOrder == [][Tick => TickDone']_vars

\* a tick removed a drifted asteroid, damaged a player and sent its snapshot
\* after another player had disconnected
C24_Witness ==
    /\ TickDone
    /\ Events("asteroidDestroyed") # {}
    /\ Events("playerDamaged") # {}
    /\ closed # {}
    /\ Len(out[Len(out)].data.asteroids) = SeedCount

\* the box of the claim, in the units of the asteroid coordinates
InBox(a) ==
    /\ -300 * TicksPerSecond <= a.x /\ a.x <= (GAME_WIDTH + 300) * TicksPerSecond
    /\ -300 * TicksPerSecond <= a.y /\ a.y <= (GAME_HEIGHT + 300) * TicksPerSecond
Removals(id) == {j \in EventsAfter("asteroidDestroyed") : out'[j].data = id}

\* C25: after a tick every stored asteroid is inside the box of 300 around
\* the world; an asteroid that the tick moved outside the box is gone from
\* the store with exactly one asteroidDestroyed carrying its id, and every
\* other asteroid is stored where its velocity took it, never on the
\* opposite edge, with no asteroidDestroyed.
C25_DriftRemoved ==
    [][Tick =>
          /\ \A id \in DOMAIN asteroids' : InBox(asteroids'[id])
          /\ \A id \in DOMAIN asteroids :
                 LET a == asteroids[id]
                     there == [a EXCEPT !.x = a.x + a.velocityX, !.y = a.y + a.velocityY]
                 IN IF InBox(there)
                    THEN /\ id \in DOMAIN asteroids'
                         /\ asteroids'[id] = there
                         /\ Removals(id) = {}
                    ELSE /\ id \notin DOMAIN asteroids'
                         /\ Cardinality(Removals(id)) = 1
          /\ DOMAIN asteroids' \subseteq DOMAIN asteroids]_vars

\* a tick has just taken the spawned asteroid across the left removal line
C25_Witness ==
    /\ ticks > 0
    /\ SeedCount + 1 \notin DOMAIN asteroids
    /\ \E j \in Events("asteroidDestroyed") : out[j].data = SeedCount + 1
    /\ \A id \in DOMAIN asteroids : InBox(asteroids[id])
    /\ asteroids # << >>

\* on exactly one edge line, 100 outside the world, the other coordinate
\* inside the world range
OnOneEdge(a) ==
    LET left == a.x = -100 * TicksPerSecond
        right == a.x = (GAME_WIDTH + 100) * TicksPerSecond
        top == a.y = -100 * TicksPerSecond
        bottom == a.y = (GAME_HEIGHT + 100) * TicksPerSecond
        xInside == 0 <= a.x /\ a.x <= GAME_WIDTH * TicksPerSecond
        yInside == 0 <= a.y /\ a.y <= GAME_HEIGHT * TicksPerSecond
    IN \/ (left \/ right) /\ yInside
       \/ (top \/ bottom) /\ xInside

\* C26: when the spawn timer fires with fewer than MAX_ASTEROIDS asteroids
\* stored, it adds exactly one, of size 2, on one edge line 100 outside the
\* world with its other coordinate inside the world, and announces it; when
\* it fires with MAX_ASTEROIDS or more it changes nothing and emits nothing.
C26_SpawnBelowCap ==
    [][\A edge \in 0..3 : \A rnd \in CrowdDraws :
          SpawnTimer(edge, rnd) =>
              IF Cardinality(DOMAIN asteroids) < 50
              THEN \E id \in DOMAIN asteroids' \ DOMAIN asteroids :
                      /\ DOMAIN asteroids' = DOMAIN asteroids \cup {id}
                      /\ \A old \in DOMAIN asteroids : asteroids'[old] = asteroids[old]
                      /\ asteroids'[id].size = 2
                      /\ OnOneEdge(asteroids'[id])
                      /\ out' = << IoEmit("newAsteroid", asteroids'[id]) >>
              ELSE /\ asteroids' = asteroids
                   /\ out' = << >>
                   /\ UNCHANGED <<players, objs, powerups, powerupId, timers,
                                  playerLastUpdateTime, nextAsteroid>>]_vars

\* the timer filled the field to MAX_ASTEROIDS with an asteroid on the top
\* edge line and then fired again without effect; nobody has connected, so
\* no other handler has run
C26_Witness ==
    /\ sockets = {} /\ closed = {}
    /\ Cardinality(DOMAIN asteroids) = MAX_ASTEROIDS
    /\ nextAsteroid = SeedCount + 1
    /\ asteroids[nextAsteroid].y = -100 * TicksPerSecond
    /\ out = << >>

\* C27: the store never holds more than 5 power-ups; a handler that runs
\* with 5 stored adds none, emits no powerupSpawned and leaves the next
\* power-up id as it was.
C27_PowerupCap ==
    [][/\ Cardinality(DOMAIN powerups) <= 5
       /\ Cardinality(DOMAIN powerups') <= 5
       /\ Cardinality(DOMAIN powerups) >= 5 =>
              /\ DOMAIN powerups' \subseteq DOMAIN powerups
              /\ powerupId' = powerupId
              /\ EventsAfter("powerupSpawned") = {}]_vars

\* both large asteroids were shot with the store one short of the cap: one
\* power-up was added, the id after it is still unused
C27_Witness ==
    /\ Cardinality(DOMAIN powerups) = MAX_POWERUPS
    /\ powerupId = MAX_POWERUPS
    /\ DOMAIN Seeded \cap DOMAIN asteroids = {}
    /\ Events("asteroidDestroyed") # {}
    /\ Events("powerupSpawned") = {}

\* the power-ups a step added and the asteroids it took out of the store
Added == DOMAIN powerups' \ DOMAIN powerups
Destroyed == DOMAIN asteroids \ DOMAIN asteroids'

\* C28: a step that adds a power-up is an asteroidHit, not a tick or a
\* timer; it adds exactly one, it destroyed exactly one asteroid, that
\* asteroid had size 2 and the power-up lies where the asteroid was, with
\* asteroidDestroyed and powerupSpawned emitted for the two. A step that
\* destroys no asteroid of size 2 adds no power-up.
C28_PowerupFromLarge ==
    [][/\ Added # {} =>
              /\ ticks' = ticks /\ now' = now /\ timers' = timers
              /\ Cardinality(Added) = 1
              /\ \E id \in Destroyed :
                    /\ Destroyed = {id}
                    /\ asteroids[id].size = 2
                    /\ \A p \in Added :
                          /\ powerups'[p].x = asteroids[id].x
                          /\ powerups'[p].y = asteroids[id].y
                          /\ out'[1] = IoEmit("asteroidDestroyed", id)
                          /\ out'[2] = IoEmit("powerupSpawned", powerups'[p])
       /\ (\A id \in Destroyed : asteroids[id].size # 2) => Added = {}]_vars

\* a large asteroid that had moved in a tick was shot and left a power-up
\* at its position, with two medium fragments
C28_Witness ==
    /\ ticks > 0
    /\ \E p \in DOMAIN powerups : \E i \in Events("powerupSpawned") :
          /\ out[i].data = powerups[p]
          /\ powerups[p].x = SeedDraw.x * TicksPerSecond + ticks * SeedDraw.velocityX
    /\ Cardinality(Events("newAsteroid")) = 2

\* C29: the inactivity check evicts no connection whose last intent (join,
\* move, shoot, asteroidHit, playerHit or collect) was received within the
\* last PLAYER_INACTIVITY_TIMEOUT milliseconds.
C29_RecentIntentKept ==
    [][InactivitySweep =>
          \A id \in Evicted : now - lastIntent[id] > PLAYER_INACTIVITY_TIMEOUT]_vars

\* C30: a stored player that is dead is later alive with health 100, or is
\* no longer stored because its connection closed: no player stays in the
\* store dead forever when due timers fire and the clock advances.
C30_DeadRespawns ==
    \A c \in Conns :
        (c \in DOMAIN players /\ ~PlayerOf(c).isAlive)
            ~> (c \notin DOMAIN players
                \/ (PlayerOf(c).isAlive /\ PlayerOf(c).health = 100))

\* the respawn callback has just brought a stored player back, RESPAWN_TIME
\* or more after the start, on a connection that never closed
C30_Witness ==
    /\ now >= RESPAWN_TIME
    /\ closed = {}
    /\ \E i \in Events("playerRespawned") :
          /\ out[i].data.id \in DOMAIN players
          /\ PlayerOf(out[i].data.id).isAlive
          /\ PlayerOf(out[i].data.id).health = 100
    /\ timers = << >>

\* C31: when a respawn timeout fires for an id that is in players, the
\* Player stored under that id is alive with health 100 right afterwards and
\* the position in playerRespawned is the stored position.
C31_RespawnActsOnStored ==
    [][\A x \in {Home[1]}, y \in {Home[2]} :
          (RespawnFire(x, y) /\ objs[Head(timers).ref].id \in DOMAIN players) =>
              LET p == objs[Head(timers).ref].id
                  stored == objs'[players'[p]]
              IN /\ stored.isAlive
                 /\ stored.health = 100
                 /\ \A i \in EventsAfter("playerRespawned") :
                        out'[i].data.x = stored.x /\ out'[i].data.y = stored.y]_vars

\* one coordinate of a frame: from cur to new towards target
Eased(cur, new, target) ==
    /\ 5 * (new - cur) = target - cur
    /\ Abs(target - new) <= Abs(target - cur)
    /\ (target - new) * (target - cur) >= 0
    /\ 5 * Abs(target - new) = 4 * Abs(target - cur)

C33_LocalShipKept ==
    [][(OnGameState /\ PerTick /\ Me \in DOMAIN playersMap) =>
          /\ Me \in DOMAIN playersMap'
          /\ playersMap'[Me].x = playersMap[Me].x
          /\ playersMap'[Me].y = playersMap[Me].y]_vars

\* C34: between handlers the ids with an inactivity entry are exactly the
\* ids with a stored Player.
C34_TrackedIffStored == DOMAIN playerLastUpdateTime = DOMAIN players

\* a stored player's entry was just refreshed by an asteroid collision, some
\* time after it joined
C34_Witness ==
    /\ \E i \in Events("playerDamaged") :
          /\ out[i].data.id \in DOMAIN players
          /\ playerLastUpdateTime[out[i].data.id] = now
    /\ now >= INACTIVITY_CHECK_INTERVAL
    /\ nextSweep > now

\* the stored asteroids of one size, and the weighted mass of the field
OfSize(size) == {id \in DOMAIN asteroids : asteroids[id].size = size}
Mass == 4 * Cardinality(OfSize(2)) + 2 * Cardinality(OfSize(1)) + Cardinality(OfSize(0))

\* C35: the weighted asteroid mass, 4 per large, 2 per medium and 1 per
\* small asteroid, never exceeds 4 * MAX_ASTEROIDS = 200, and so neither does
\* the number of asteroids.
C35_MassBounded ==
    /\ Mass <= 4 * 50
    /\ Cardinality(DOMAIN asteroids) <= 4 * 50
    /\ \A id \in DOMAIN asteroids : asteroids[id].size \in {0, 1, 2}

\* the field holds more than MAX_ASTEROIDS asteroids at the full mass: the
\* timer filled it and a large asteroid was then shot into two
C35_Witness ==
    /\ Mass = 4 * MAX_ASTEROIDS
    /\ Cardinality(DOMAIN asteroids) > MAX_ASTEROIDS
    /\ OfSize(1) # {}

\* C36: one bullet that reaches a living player takes its damage off that
\* player's health at most once, however many clients simulate the bullet
\* and see the overlap. The server's playerHit handler cannot tell two reports
\* of one bullet apart, so the statement fails.
C36_OneDeduction == \A n \in DOMAIN bullets : bullets[n].dealt <= 1

\* C37: however often the client connects and reconnects, a delivered event
\* is processed once, so one bulletFired adds exactly one bullet to the scene.
\* Each connect registers the handlers again on the same socket and the
\* statement fails after the first reconnect.
C37_ProcessedOnce ==
    [][Next1("bulletFired") /\ handled'.name = "bulletFired" /\ inbox' = Tail(inbox)
          => Len(bulletsGroup') = Len(bulletsGroup) + 1]_vars

\* C38: once the client has processed a snapshot that lists the powerups,
\* the ids in its powerupsMap are the ids the snapshot lists. handleGameState
\* reads the players and the asteroids of a snapshot only, so the statement
\* fails for a client that connected after a powerup was spawned.
C38_PowerupsSynced ==
    [][(/\ Next1("gameState")
        /\ "powerups" \in DOMAIN Head(inbox).data
        /\ handled'.name = "gameState"
        /\ inbox' = Tail(inbox))
          => DOMAIN powerupsMap' = Ids(Head(inbox).data.powerups)]_vars

\* C39: when the server has made a player dead, by a reported hit or by a
\* collision, a client that knows the player shows it dead once it has
\* processed the events of the death and the next snapshot, until it
\* processes the player's playerRespawned. The client has no handler for
\* the playerDied of the collision path and handleGameState never
\* deactivates a sprite, so the statement fails for a death by collision.
C39_DeadShownDead ==
    (handled.name = "gameState" /\ inbox = << >>) =>
        \A i \in DOMAIN handled.data.players :
            LET playerInfo == handled.data.players[i]
            IN (/\ ~playerInfo.isAlive
                /\ playerInfo.id \in handled.players
                /\ playerInfo.id \in DOMAIN playersMap)
                  => ~playersMap[playerInfo.id].active

\* C40: a playerRespawned for an id is broadcast only while the Player
\* stored under that id was dead immediately before, so that the deaths and
\* the respawns of an id alternate. The timeout of a Player object replaced
\* by a second playerJoin of its connection still fires for the id, so the
\* statement fails.
C40_RespawnOnlyDead ==
    [][RespawnFire(Home[1], Home[2]) =>
          \A i \in EventsAfter("playerRespawned") :
              /\ out'[i].data.id \in DOMAIN players
              /\ ~objs[players[out'[i].data.id]].isAlive]_vars
====
